---- MODULE Spec2Model ----
(***************************************************************************)
(* arc-merchant: x402 payment-gated resources, the facilitator's settle    *)
(* path over Circle transactions, the in-memory stats ledger and the       *)
(* buyer-side arc_pay_for_content tool.                                    *)
(*                                                                         *)
(* Specifications:                                                         *)
(*   Spec        requests through the gate, settlement, the ledger         *)
(*   LedgerSpec  the ledger's three entry points under arbitrary callers   *)
(*   CapSpec     the ledger filled past its retention limit                *)
(*   PollSpec    waitForCircleTransaction over backend observations        *)
(*   PaySpec     one run of arc_pay_for_content                            *)
(***************************************************************************)
EXTENDS Integers, Sequences, FiniteSets, TLC

(***************************************************************************)
(* Bounds of the model.                                                    *)
(***************************************************************************)
\* requests in flight in Spec
MaxRequests == 2
\* recordPayment calls in LedgerSpec
MaxLedgerRecords == 2
\* recordPayment calls in CapSpec (must exceed PaymentsKept)
MaxCapRecords == 52
\* length of the varying tail of an observation sequence in PollSpec
MaxObsTail == 2
\* POST /api/stats requests in flight together in PostSpec
MaxPosts == 2
\* createAgentWallet calls in flight together in WalletSpec
MaxCallers == 2
\* recordPayment calls in TotalsSpec
MaxTotalsRecords == 6

(***************************************************************************)
(* Program constants.                                                      *)
(***************************************************************************)
\* store.payments keeps the last 50 records
PaymentsKept == 50
\* the limbs of a binary64 significand: 27 high bits and 26 low bits
LimbBase == 67108864
HighLimbEnd == 134217728
\* waitForCircleTransaction's default maxAttempts
DefaultMaxAttempts == 60
\* USDC smallest units per USDC (6 decimals)
UnitsPerUSDC == 1000000

\* null, and the empty string (both falsy in the source)
NoTx == "null"
EmptyStr == ""

Falsy(s) == s = NoTx \/ s = EmptyStr

(***************************************************************************)
(* Strings of the model and String.prototype.toLowerCase on them.          *)
(***************************************************************************)
UnknownPayer == "unknown"
Addresses == {"0xAB", "0xab", "0xCD"}

toLowerCase(s) ==
  CASE s = "0xAB" -> "0xab"
    [] s = "0xCD" -> "0xcd"
    [] OTHER -> s

\* data/articles.ts: the slugs that have an article; any other slug has none
ArticleSlugs == {"arc-blockchain-guide", "x402-micropayments"}
MissingSlug == "no-such-article"

getArticleBySlug(slug) == slug \in ArticleSlugs

(***************************************************************************)
(* The stats ledger (lib/stats).  A record carries a ghost id, the order   *)
(* in which recordPayment was called since the process started, and a      *)
(* ghost txAtRecord, the txHash it was recorded with; the timestamp field  *)
(* (Date.now()) is read by no operation and is left out.                   *)
(***************************************************************************)
(***************************************************************************)
(* The Number type of the revenue sums: IEEE 754 binary64, for the values  *)
(* that occur (zero and positive normal numbers).  A number is             *)
(* (hi * 2^26 + lo) * 2^e with a 53-bit significand, hi in 2^26 .. 2^27-1. *)
(***************************************************************************)
Double(hi, lo, e) == [hi |-> hi, lo |-> lo, e |-> e]

NumberZero == Double(0, 0, 0)

\* the literal 0.01 of route.ts: 0x3F847AE147AE147B
ArticleAmount == Double(85899345, 61740155, -59)

\* y with its significand shifted right by d bits; rem holds the bits dropped
ShiftRight(y, d) ==
  [hi |-> y.hi \div 2^d,
   lo |-> (y.lo \div 2^d) + (y.hi % 2^d) * 2^(26 - d),
   rem |-> y.lo % 2^d]

\* the significand m + 1, renormalised
NextUp(m) ==
  IF m.lo + 1 < LimbBase THEN Double(m.hi, m.lo + 1, m.e)
  ELSE IF m.hi + 1 < HighLimbEnd THEN Double(m.hi + 1, 0, m.e)
  ELSE Double(LimbBase, 0, m.e + 1)

\* round to nearest, ties to even: m with t dropped bits of value rem
RoundNearestEven(m, rem, t) ==
  IF t = 0 THEN m
  ELSE LET half == 2^(t - 1)
       IN IF rem > half \/ (rem = half /\ m.lo % 2 = 1) THEN NextUp(m) ELSE m

\* x + y for x.e >= y.e
AddAligned(x, y) ==
  LET d == x.e - y.e
      s == ShiftRight(y, d)
      losum == x.lo + s.lo
      lo == losum % LimbBase
      hi == x.hi + s.hi + (losum \div LimbBase)
  IN IF hi >= HighLimbEnd
       THEN RoundNearestEven(Double(hi \div 2, (lo \div 2) + (hi % 2) * (LimbBase \div 2), x.e + 1),
                             (lo % 2) * 2^d + s.rem, d + 1)
       ELSE RoundNearestEven(Double(hi, lo, x.e), s.rem, d)

\* the + of two Numbers
NumberAdd(x, y) ==
  IF x = NumberZero THEN y
  ELSE IF y = NumberZero THEN x
  ELSE IF x.e >= y.e THEN AddAligned(x, y) ELSE AddAligned(y, x)

Payment(id, slug, amount, txHash, payer) ==
  [id |-> id, slug |-> slug, amount |-> amount, txHash |-> txHash, payer |-> payer,
   txAtRecord |-> txHash]

EmptyStore ==
  [payments |-> << >>,
   articleStats |-> << >>,
   totalRevenue |-> NumberZero,
   totalPayments |-> 0,
   cachedBalance |-> NoTx,
   cachedWalletAddress |-> NoTx,
   balanceCacheTime |-> 0,
   balanceNeedsRefresh |-> TRUE]

\* the overflow removed with shift(): the newest record goes
KeepLastShift(ps) ==
  IF Len(ps) > PaymentsKept THEN SubSeq(ps, 2, Len(ps)) ELSE ps

\* payments.unshift(payment); if (payments.length > 50) payments.pop()
KeepLast(ps) ==
  IF Len(ps) > PaymentsKept THEN SubSeq(ps, 1, Len(ps) - 1) ELSE ps

\* the articleStats Map: a function whose domain is the set of slugs seen
BumpArticle(stats, slug, amount) ==
  IF slug \in DOMAIN stats
    THEN [stats EXCEPT ![slug] = [views |-> @.views + 1, revenue |-> NumberAdd(@.revenue, amount)]]
    ELSE [s \in (DOMAIN stats) \cup {slug} |->
            IF s = slug THEN [views |-> 1, revenue |-> amount] ELSE stats[s]]

\* a recordPayment that leaves the balance cache as it is
recordPaymentKeepCache(st, payment) ==
  [st EXCEPT
     !.payments = KeepLast(<<payment>> \o st.payments),
     !.totalPayments = @ + 1,
     !.totalRevenue = NumberAdd(@, payment.amount),
     !.articleStats = BumpArticle(@, payment.slug, payment.amount)]

recordPayment(st, payment) ==
  [st EXCEPT
     !.payments = KeepLast(<<payment>> \o st.payments),
     !.totalPayments = @ + 1,
     !.totalRevenue = NumberAdd(@, payment.amount),
     !.articleStats = BumpArticle(@, payment.slug, payment.amount),
     !.balanceNeedsRefresh = TRUE]

resetStats(st) == EmptyStore

\* the balance cache of the store; now: Date.now() in milliseconds
BALANCE_CACHE_TTL == 30000

shouldRefreshBalance(st, now) ==
  IF st.balanceNeedsRefresh THEN TRUE
  ELSE IF Falsy(st.cachedBalance) THEN TRUE
  ELSE IF now - st.balanceCacheTime > BALANCE_CACHE_TTL THEN TRUE
  ELSE FALSE

getCachedBalance(st) == st.cachedBalance

setCachedBalance(st, balance, walletAddress, now) ==
  [st EXCEPT !.cachedBalance = balance,
             !.cachedWalletAddress = walletAddress,
             !.balanceCacheTime = now,
             !.balanceNeedsRefresh = FALSE]

getCachedWallet(st) == st.cachedWalletAddress

\* the predicate of store.payments.find in updatePaymentTxHash
UpdateMatchLoose(p, slug, payer) ==
  /\ p.slug = slug
  /\ toLowerCase(p.payer) = toLowerCase(payer)

UpdateMatch(p, slug, payer) ==
  /\ p.slug = slug
  /\ toLowerCase(p.payer) = toLowerCase(payer)
  /\ Falsy(p.txHash)

\* Array.prototype.find: the index of the first match from the front, 0 if none
RECURSIVE FindFrom(_, _, _, _)
FindFrom(ps, slug, payer, i) ==
  IF i > Len(ps) THEN 0
  ELSE IF UpdateMatch(ps[i], slug, payer) THEN i
  ELSE FindFrom(ps, slug, payer, i + 1)

\* a find that scans from the back: the oldest match
RECURSIVE FindOldestFrom(_, _, _, _)
FindOldestFrom(ps, slug, payer, i) ==
  IF i < 1 THEN 0
  ELSE IF UpdateMatch(ps[i], slug, payer) THEN i
  ELSE FindOldestFrom(ps, slug, payer, i - 1)

FindOldest(ps, slug, payer) == FindOldestFrom(ps, slug, payer, Len(ps))

Find(ps, slug, payer) == FindFrom(ps, slug, payer, 1)

\* updatePaymentTxHash: the new payments list and the returned boolean
updatePaymentTxHash(st, slug, payer, txHash) ==
  LET i == Find(st.payments, slug, payer) IN
    IF i # 0
      THEN [store |-> [st EXCEPT !.payments[i].txHash = txHash], updated |-> TRUE]
      ELSE [store |-> st, updated |-> FALSE]

(***************************************************************************)
(* Circle transactions and waitForCircleTransaction (lib/circle-wallet).   *)
(* A poll sees a snapshot of the transaction: its state and txHash, or     *)
(* NotFound when the response carries no transaction.                      *)
(***************************************************************************)
PendingStates == {"INITIATED", "QUEUED", "SENT", "CONFIRMED"}
FailureStates == {"FAILED", "CANCELLED", "DENIED"}
TerminalStates == {"COMPLETE"} \cup FailureStates
TxStates == PendingStates \cup TerminalStates

NotFound == [txHash |-> NoTx, state |-> "NOT_FOUND"]
Snapshot(state, txHash) == [txHash |-> txHash, state |-> state]

\* what poll number i sees: the backend stays in the last state of obs
ObservedAt(obs, i) == obs[IF i < Len(obs) THEN i ELSE Len(obs)]

WaitResult(kind, txHash, polls, sleeps) ==
  [kind |-> kind, txHash |-> txHash, polls |-> polls, sleeps |-> sleeps]

\* the loop body returning on COMPLETE without looking at tx.txHash
WaitStopUnchecked(obs, maxAttempts, i, sleeps) ==
  IF ~(i < maxAttempts)
    THEN WaitResult("timeout", NoTx, i, sleeps)
    ELSE LET tx == ObservedAt(obs, i + 1) IN
      CASE tx = NotFound -> WaitResult("not_found", NoTx, i + 1, sleeps)
        [] tx.state = "COMPLETE" -> WaitResult("ok", tx.txHash, i + 1, sleeps)
        [] tx.state = "FAILED" -> WaitResult("failed", NoTx, i + 1, sleeps)
        [] tx.state = "CANCELLED" -> WaitResult("cancelled", NoTx, i + 1, sleeps)
        [] tx.state = "DENIED" -> WaitResult("denied", NoTx, i + 1, sleeps)

\* the body of the loop at index i for a transaction that ends the loop, and
\* the throw after the loop
WaitStop(obs, maxAttempts, i, sleeps) ==
  IF ~(i < maxAttempts)
    THEN WaitResult("timeout", NoTx, i, sleeps)
    ELSE LET tx == ObservedAt(obs, i + 1) IN
      CASE tx = NotFound -> WaitResult("not_found", NoTx, i + 1, sleeps)
        [] tx.state = "COMPLETE" ->
             IF Falsy(tx.txHash)
               THEN WaitResult("no_hash", NoTx, i + 1, sleeps)
               ELSE WaitResult("ok", tx.txHash, i + 1, sleeps)
        [] tx.state = "FAILED" -> WaitResult("failed", NoTx, i + 1, sleeps)
        [] tx.state = "CANCELLED" -> WaitResult("cancelled", NoTx, i + 1, sleeps)
        [] tx.state = "DENIED" -> WaitResult("denied", NoTx, i + 1, sleeps)

\* the times round the for loop that take the default case of the switch
\* (sleep, then the next i): the first index whose poll ends the loop, or
\* maxAttempts when none does
Rounds(obs, maxAttempts) ==
  LET ends == {i \in 0 .. maxAttempts :
                 \/ i = maxAttempts
                 \/ ObservedAt(obs, i + 1).state \notin PendingStates}
  IN IF ends = {} THEN 0 ELSE CHOOSE i \in ends : \A j \in ends : i <= j

\* for (let i = 0; i < maxAttempts; i++) { ... } throw timed out
WaitLoop(obs, maxAttempts) ==
  LET n == Rounds(obs, maxAttempts) IN WaitStop(obs, maxAttempts, n, n)

\* the loop with the bound written i <= maxAttempts
waitForCircleTransactionOffByOne(obs, maxAttempts) ==
  WaitLoop(obs, maxAttempts + 1)

\* the loop with DENIED reported like COMPLETE
waitForCircleTransactionDeniedOk(obs, maxAttempts) ==
  LET res == WaitLoop(obs, maxAttempts) IN
    IF res.kind = "denied"
      THEN [res EXCEPT !.kind = "ok", !.txHash = "0xforced"]
      ELSE res

waitForCircleTransaction(obs, maxAttempts) == WaitLoop(obs, maxAttempts)

\* every failing result reported with one message
WaitErrorGeneric(res) ==
  IF res.kind = "ok" THEN "none" ELSE "Transaction failed"

\* the message of the Error thrown for each failing result
WaitError(res) ==
  CASE res.kind = "timeout" -> "timed out"
    [] res.kind = "not_found" -> "not found"
    [] res.kind = "no_hash" -> "Transaction complete but no txHash"
    [] res.kind = "failed" -> "Transaction failed"
    [] res.kind = "cancelled" -> "Transaction was cancelled"
    [] res.kind = "denied" -> "Transaction was denied"
    [] OTHER -> "none"

\* executeContractCall with the poll's error caught and the call returning
executeContractCallSwallow(created, obs) ==
  IF ~created
    THEN [thrown |-> TRUE, txHash |-> NoTx,
          error |-> "Failed to create contract execution transaction"]
    ELSE LET res == WaitLoop(obs, DefaultMaxAttempts) IN
      [thrown |-> FALSE, txHash |-> IF res.kind = "ok" THEN res.txHash ELSE "0xpending",
       error |-> "none"]

\* executeContractCall: the transaction was created (created) and is polled
\* with the default budget; returns a txHash or throws
executeContractCall(created, obs) ==
  IF ~created
    THEN [thrown |-> TRUE, txHash |-> NoTx,
          error |-> "Failed to create contract execution transaction"]
    ELSE LET res == waitForCircleTransaction(obs, DefaultMaxAttempts) IN
      IF res.kind = "ok"
        THEN [thrown |-> FALSE, txHash |-> res.txHash, error |-> "none"]
        ELSE [thrown |-> TRUE, txHash |-> NoTx, error |-> WaitError(res)]

\* a signer that submits the call again when the first transaction did not
\* succeed, the second one completing
writeContractResubmit(created, obs) ==
  IF executeContractCall(created, obs).thrown
    THEN executeContractCall(TRUE, <<[txHash |-> "0xresubmitted", state |-> "COMPLETE"]>>)
    ELSE executeContractCall(created, obs)

\* the signer's writeContract: result.txHash of executeContractCall
writeContract(created, obs) == executeContractCall(created, obs)

(***************************************************************************)
(* State.                                                                  *)
(***************************************************************************)
VARIABLES
  store,       \* the StatsStore of lib/stats
  nextId,      \* ghost: 1 + the number of recordPayment calls so far
  req,         \* the requests to protected routes, by request number
  circleTx,    \* the Circle transaction submitted for each request's settle
  usedNonces,  \* chain: the (from, nonce) authorizations already consumed
  moved,       \* chain ghost: the transfers executed, by authorization
  poll,        \* PollSpec: the last waitForCircleTransaction call
  pay,         \* PaySpec: the run of arc_pay_for_content
  ver,         \* VerifySpec: the last call of the facilitator's verify
  quote,       \* RegistrySpec: the last call of the money parser
  conf,        \* ConfigSpec: the last resolution of the payee
  posts,       \* PostSpec: the POST /api/stats requests in flight
  cache,       \* CacheSpec: the clock and the GET /api/stats in flight
  resolved,    \* ResolveSpec: a requirement and the amount each buyer resolves
  circle       \* WalletSpec: the Circle account and the createAgentWallet calls

restVars == <<posts, cache, resolved, circle>>
extVars == <<conf, restVars>>
vars == <<store, nextId, req, circleTx, usedNonces, moved, poll, pay, ver, quote, extVars>>
ledgerVars == <<store, nextId>>
gateVars == <<req, circleTx, usedNonces, moved>>

Req == 1 .. MaxRequests

(***************************************************************************)
(* Requests.  A payment-signature header is absent, undecodable, or a      *)
(* payload with an authorization.                                          *)
(***************************************************************************)
ARC_NETWORK == "eip155:5042002"
MerchantAddress == "0xMerchant"
OtherAddress == "0xOther"

\* the payload names the resource of the 402 challenge it answers
RequestedResource == "requested"

NoPayment ==
  [kind |-> "none", from |-> EmptyStr, nonce |-> EmptyStr, value |-> 0,
   payTo |-> EmptyStr, resource |-> EmptyStr]
Malformed ==
  [kind |-> "malformed", from |-> EmptyStr, nonce |-> EmptyStr, value |-> 0,
   payTo |-> EmptyStr, resource |-> EmptyStr]
\* a decoded payment-signature header: an authorization of value from the
\* payer to payTo, in a payload whose accepted block names payTo and that
\* names resource
Presented(from, nonce, value, payTo, resource) ==
  [kind |-> "payload", from |-> from, nonce |-> nonce, value |-> value,
   payTo |-> payTo, resource |-> resource]
\* the payload a buyer builds from the 402 challenge of the request
Authorization(from, nonce, value) ==
  Presented(from, nonce, value, MerchantAddress, RequestedResource)

\* price '$0.01' at 6 decimals
RequiredAmount == 10000

GatePayers == {"0xAB", "0xab"}
GateNonces == {"n1", "n2"}
\* the payment-signature headers tried: two spellings of one payer's
\* authorization, a second authorization, an underpayment, junk, none, a
\* payload that accepts another payee, a payload built for /api/premium
GatePayments ==
  {NoPayment, Malformed,
   Authorization("0xAB", "n1", RequiredAmount),
   Authorization("0xab", "n1", RequiredAmount),
   Authorization("0xab", "n2", RequiredAmount),
   Authorization("0xab", "n2", RequiredAmount - 1),
   Presented("0xab", "n2", RequiredAmount, OtherAddress, RequestedResource),
   Presented("0xab", "n2", RequiredAmount, MerchantAddress, "/api/premium")}

FakeTx == "0xfake"
HashNames == <<"0xtx1", "0xtx2", "0xtx3", "0xtx4">>
\* the hash of the chain transaction that settles request r
HashOf(r) == HashNames[r]

IdleRequest ==
  [state |-> "IDLE", route |-> "none", slug |-> EmptyStr, payment |-> NoPayment,
   hdrTx |-> NoTx, status |-> 0, released |-> FALSE, reason |-> "none",
   settleTx |-> NoTx, recorded |-> 0, recordId |-> 0, events |-> << >>,
   accepts |-> << >>]

NoCircleTx == [txHash |-> NoTx, state |-> "NONE"]

\* the authorization as the token contract keys it
AuthKey(payment) == <<toLowerCase(payment.from), payment.nonce>>
AuthKeys == {<<toLowerCase(f), n>> : f \in GatePayers, n \in GateNonces}

(***************************************************************************)
(* The protected handlers.                                                 *)
(***************************************************************************)
\* the handler recording the payment before it looks the article up
articleHandlerRecordFirst(st, id, slug, payment, hdrTx) ==
  LET payer == IF payment.kind = "payload" /\ payment.from # EmptyStr
                 THEN payment.from ELSE UnknownPayer
      txHash == IF Falsy(hdrTx) THEN NoTx ELSE hdrTx
      after == recordPayment(st, Payment(id, slug, ArticleAmount, txHash, payer))
  IN IF ~getArticleBySlug(slug)
       THEN [store |-> after, status |-> 404, recorded |-> TRUE, id |-> id]
       ELSE [store |-> after, status |-> 200, recorded |-> TRUE, id |-> id]

\* the handler recording every payer as 'unknown'
articleHandlerUnknownPayer(st, id, slug, payment, hdrTx) ==
  IF ~getArticleBySlug(slug)
    THEN [store |-> st, status |-> 404, recorded |-> FALSE, id |-> 0]
    ELSE [store |-> recordPayment(st, Payment(id, slug, ArticleAmount,
                                              IF Falsy(hdrTx) THEN NoTx ELSE hdrTx,
                                              UnknownPayer)),
          status |-> 200, recorded |-> TRUE, id |-> id]

\* articleHandler: 404 without a record when the slug has no article;
\* otherwise one recordPayment with the payer of the payment-signature header
\* and the transaction of the request's x-payment-response header
articleHandler(st, id, slug, payment, hdrTx) ==
  IF ~getArticleBySlug(slug)
    THEN [store |-> st, status |-> 404, recorded |-> FALSE, id |-> 0]
    ELSE LET payer == IF payment.kind = "payload" /\ payment.from # EmptyStr
                        THEN payment.from ELSE UnknownPayer
             txHash == IF Falsy(hdrTx) THEN NoTx ELSE hdrTx
         IN [store |-> recordPayment(st, Payment(id, slug, ArticleAmount, txHash, payer)),
             status |-> 200, recorded |-> TRUE, id |-> id]

\* premiumHandler: a 200 response, no ledger call
premiumHandler(st, id, slug, payment, hdrTx) ==
  [store |-> st, status |-> 200, recorded |-> FALSE, id |-> 0]

Handler(route, st, id, slug, payment, hdrTx) ==
  IF route = "article"
    THEN articleHandler(st, id, slug, payment, hdrTx)
    ELSE premiumHandler(st, id, slug, payment, hdrTx)

\* the request after its handler ran and the response was returned
Handled(q, h, state) ==
  [q EXCEPT !.state = state, !.status = h.status, !.released = (h.status = 200),
            !.recorded = @ + (IF h.recorded THEN 1 ELSE 0),
            !.recordId = IF h.recorded THEN h.id ELSE @,
            !.events = Append(@, "handler")]

LedgerAfter(h) ==
  /\ store' = h.store
  /\ nextId' = IF h.recorded THEN nextId + 1 ELSE nextId

(***************************************************************************)
(* The verifier behind the facilitator's verify: the six checks on a       *)
(* payment payload against a requirement at time now, in the order they    *)
(* are listed, the first failing check giving invalidReason.               *)
(***************************************************************************)
\* accepted.maxTimeoutSeconds of the payloads the scripts send
MaxTimeoutSeconds == 3600
\* now + 3600: the lifetime the buyers give an authorization
BuyerValiditySeconds == 3600

Accepted(scheme, network, asset, payTo, amount) ==
  [amount |-> amount, scheme |-> scheme, network |-> network, asset |-> asset,
   payTo |-> payTo]

\* the requirement a route offers: accepts[0] with its price resolved
PaymentRequirements(amount) ==
  [amount |-> amount, scheme |-> "exact", network |-> ARC_NETWORK, asset |-> "USDC",
   payTo |-> MerchantAddress, maxTimeoutSeconds |-> MaxTimeoutSeconds]

AcceptedOf(requirements) ==
  Accepted(requirements.scheme, requirements.network, requirements.asset,
           requirements.payTo, requirements.amount)

TransferAuthorization(from, to, value, validAfter, validBefore, nonce) ==
  [from |-> from, nonce |-> nonce, value |-> value, to |-> to,
   validAfter |-> validAfter, validBefore |-> validBefore]

\* signer: the address the signature recovers to
PaymentPayload(accepted, authorization, signer) ==
  [accepted |-> accepted, authorization |-> authorization, signer |-> signer]

AcceptedMatches(payload, requirements) ==
  /\ payload.accepted.asset = requirements.asset
  /\ payload.accepted.network = requirements.network
  /\ payload.accepted.scheme = requirements.scheme

TimeWindowOk(authorization, requirements, now) ==
  /\ authorization.validAfter <= now
  /\ now < authorization.validBefore
  /\ authorization.validBefore - authorization.validAfter
       <= requirements.maxTimeoutSeconds

VerifyResponse(isValid, invalidReason) ==
  [isValid |-> isValid, invalidReason |-> invalidReason]

AmountMismatchReason == "invalid_exact_evm_payload_authorization_value"

exactEvmVerify(payload, requirements, now, balance) ==
  LET authorization == payload.authorization IN
    IF ~AcceptedMatches(payload, requirements)
      THEN VerifyResponse(FALSE, "accepted_mismatch")
    ELSE IF authorization.value # requirements.amount
      THEN VerifyResponse(FALSE, AmountMismatchReason)
    ELSE IF ~TimeWindowOk(authorization, requirements, now)
      THEN VerifyResponse(FALSE, "invalid_time_window")
    ELSE IF authorization.to # requirements.payTo
      THEN VerifyResponse(FALSE, "recipient_mismatch")
    ELSE IF payload.signer # authorization.from
      THEN VerifyResponse(FALSE, "invalid_signature")
    ELSE IF balance < authorization.value
      THEN VerifyResponse(FALSE, "insufficient_funds")
    ELSE VerifyResponse(TRUE, "none")

\* the error of the 400 answer of both routes
MissingBody == "Missing paymentPayload or paymentRequirements"

\* the route answering valid for every request that has both body fields
verifyRouteUnchecked(hasPayload, hasRequirements, payload, requirements, now, balance) ==
  IF ~hasPayload \/ ~hasRequirements
    THEN [status |-> 400, isValid |-> FALSE, invalidReason |-> "none", invoked |-> FALSE,
          error |-> MissingBody]
    ELSE [status |-> 200, isValid |-> TRUE, invalidReason |-> "none", invoked |-> TRUE,
          error |-> "none"]

\* the route handing every body to facilitator.verify
verifyRouteNoBodyCheck(hasPayload, hasRequirements, payload, requirements, now, balance) ==
  LET v == exactEvmVerify(payload, requirements, now, balance) IN
    [status |-> 200, isValid |-> v.isValid, invalidReason |-> v.invalidReason,
     invoked |-> TRUE, error |-> "none"]

\* app.post("/verify"): 400 without both body fields, else the response of
\* facilitator.verify as JSON; invoked: facilitator.verify was called;
\* error: the error member of the body
verifyRoute(hasPayload, hasRequirements, payload, requirements, now, balance) ==
  IF ~hasPayload \/ ~hasRequirements
    THEN [status |-> 400, isValid |-> FALSE, invalidReason |-> "none", invoked |-> FALSE,
          error |-> MissingBody]
    ELSE LET v == exactEvmVerify(payload, requirements, now, balance) IN
      [status |-> 200, isValid |-> v.isValid, invalidReason |-> v.invalidReason,
       invoked |-> TRUE, error |-> "none"]

\* app.post("/verify") when facilitator.verify throws an Error with this
\* message: the catch answers 500 with the message as the error member
verifyRouteThrown(hasPayload, hasRequirements, message) ==
  IF ~hasPayload \/ ~hasRequirements
    THEN [status |-> 400, isValid |-> FALSE, invalidReason |-> "none", invoked |-> FALSE,
          error |-> MissingBody]
    ELSE [status |-> 500, isValid |-> FALSE, invalidReason |-> "none", invoked |-> TRUE,
          error |-> message]

\* VerifySpec: no call of verify made yet
NoVer ==
  [called |-> FALSE, source |-> "none", status |-> 0, isValid |-> FALSE,
   invalidReason |-> "none", now |-> 0, balance |-> 0,
   endpoint |-> "none", invoked |-> FALSE, hasPayload |-> FALSE,
   hasRequirements |-> FALSE, success |-> FALSE, errorReason |-> "none",
   error |-> "none",
   payload |-> PaymentPayload(AcceptedOf(PaymentRequirements(0)),
                              TransferAuthorization(EmptyStr, EmptyStr, 0, 0, 0, EmptyStr),
                              EmptyStr),
   requirements |-> PaymentRequirements(0)]

(***************************************************************************)
(* The facilitator (servers/facilitator).                                  *)
(***************************************************************************)
\* facilitator.verify: the authorization pays exactly the required amount
\* the accepted block of a payload: a copy of the requirement it answers
PayloadAccepted(payment) ==
  Accepted("exact", ARC_NETWORK, "USDC", payment.payTo, RequiredAmount)

\* the clock of the facilitator while the requests of Spec are served
GateNow == 1000
GateBalance == RequiredAmount

\* the payload a payment-signature header of Spec carries: an authorization
\* to the merchant, signed by its payer, valid from GateNow for
\* maxTimeoutSeconds
GatePayload(payment) ==
  PaymentPayload(
    PayloadAccepted(payment),
    TransferAuthorization(payment.from, payment.payTo, payment.value,
                          GateNow, GateNow + MaxTimeoutSeconds, payment.nonce),
    payment.from)

\* the gate's facilitator client: POST /verify on the facilitator
facilitatorVerify(payment) ==
  verifyRoute(TRUE, TRUE, GatePayload(payment), PaymentRequirements(RequiredAmount),
              GateNow, GateBalance)

\* facilitator.settle over the signer's writeContract: a thrown signer error
\* becomes a failed SettleResponse
facilitatorSettle(w) ==
  IF w.thrown
    THEN [thrown |-> FALSE, success |-> FALSE, transaction |-> NoTx, errorReason |-> w.error]
    ELSE [thrown |-> FALSE, success |-> TRUE, transaction |-> w.txHash, errorReason |-> "none"]

\* the route answering 500 whenever the settlement did not succeed
settleRouteFailureAs500(f) ==
  IF ~f.thrown /\ f.success
    THEN [status |-> 200, success |-> TRUE, transaction |-> f.transaction,
          errorReason |-> f.errorReason, error |-> "none"]
    ELSE [status |-> 500, success |-> FALSE, transaction |-> NoTx,
          errorReason |-> "none", error |-> f.errorReason]

\* app.post("/settle"): the facilitator's response as JSON; a thrown
\* "Settlement aborted: x" as a failed SettleResponse with errorReason x; any
\* other throw as 500 with the message of the error as the error member
settleRoute(f) ==
  IF ~f.thrown
    THEN [status |-> 200, success |-> f.success, transaction |-> f.transaction,
          errorReason |-> f.errorReason, error |-> "none"]
    ELSE IF f.errorReason = "Settlement aborted"
      THEN [status |-> 200, success |-> FALSE, transaction |-> NoTx,
            errorReason |-> f.errorReason, error |-> "none"]
      ELSE [status |-> 500, success |-> FALSE, transaction |-> NoTx,
            errorReason |-> "none", error |-> f.errorReason]

\* app.post("/settle") from the request body on: 400 without both body
\* fields, else the route's answer to what facilitator.settle did
settlePost(hasPayload, hasRequirements, f) ==
  IF ~hasPayload \/ ~hasRequirements
    THEN [status |-> 400, success |-> FALSE, transaction |-> NoTx,
          errorReason |-> "none", invoked |-> FALSE, error |-> MissingBody]
    ELSE LET a == settleRoute(f) IN
      [status |-> a.status, success |-> a.success, transaction |-> a.transaction,
       errorReason |-> a.errorReason, invoked |-> TRUE, error |-> a.error]

\* what the polls of one settle see: the transaction as it is when the call
\* returns (polls of a pending transaction change nothing and are skipped)
SettleObs(r) == [i \in 1 .. DefaultMaxAttempts |-> circleTx[r]]

SettleResponse(r) ==
  settleRoute(facilitatorSettle(writeContract(circleTx[r].state # "NONE", SettleObs(r))))

(***************************************************************************)
(* The resource gate (withX402 around a handler).                          *)
(***************************************************************************)
\* requests are numbered in the order of their arrival
NextToArrive(r) ==
  /\ req[r].state = "IDLE"
  /\ r > 1 => req[r - 1].state # "IDLE"

Incoming(route, slug, payment, hdrTx) ==
  [IdleRequest EXCEPT !.route = route, !.slug = slug, !.payment = payment, !.hdrTx = hdrTx]

ResourceUrl(route, slug) ==
  IF route = "premium" THEN "/api/premium" ELSE "/api/article/" \o slug

\* a price list that rises with every sale
AcceptsListBySales(route, slug) ==
  <<PaymentRequirements(RequiredAmount + store.totalPayments)>>

\* GET of a route: the accepts list given to withX402, the payee fetched
\* anew for the request
AcceptsList(route, slug) == <<PaymentRequirements(RequiredAmount)>>

\* the requirements the gate offers for a resource
Offered(route, slug) ==
  {AcceptedOf(AcceptsList(route, slug)[i]) : i \in 1 .. Len(AcceptsList(route, slug))}

\* the resource a payload names
PayloadResource(payment, route, slug) ==
  IF payment.resource = RequestedResource
    THEN ResourceUrl(route, slug)
    ELSE payment.resource

\* the payload answers an offer of this resource
BoundToRequest(route, slug, payment) ==
  /\ PayloadAccepted(payment) \in Offered(route, slug)
  /\ PayloadResource(payment, route, slug) = ResourceUrl(route, slug)

\* a request arrives: 402 challenge without a payment header, 400 for an
\* undecodable one, rejection of a payload that answers no offer of this
\* resource, otherwise the payload is taken in
withX402Receive(r, route, slug, payment, hdrTx) ==
  /\ NextToArrive(r)
  /\ LET q == Incoming(route, slug, payment, hdrTx) IN
       req' = [req EXCEPT ![r] =
         CASE payment.kind = "none" ->
                [q EXCEPT !.state = "CHALLENGE_ISSUED", !.status = 402,
                          !.accepts = AcceptsList(route, slug)]
           [] payment.kind = "malformed" ->
                [q EXCEPT !.state = "REJECTED", !.status = 400, !.reason = "malformed"]
           [] ~BoundToRequest(route, slug, payment) ->
                [q EXCEPT !.state = "REJECTED", !.status = 402,
                          !.reason = "no_matching_requirements"]
           [] OTHER -> [q EXCEPT !.state = "PAYLOAD_RECEIVED"]]
  /\ UNCHANGED <<ledgerVars, circleTx, usedNonces, moved, poll, pay, ver, quote, extVars>>

\* the route calls its handler without the gate
ArticleGETUnwrapped(r, slug, payment, hdrTx) ==
  /\ NextToArrive(r)
  /\ LET h == Handler("article", store, nextId, slug, payment, hdrTx) IN
       /\ req' = [req EXCEPT ![r] =
                    Handled(Incoming("article", slug, payment, hdrTx), h, "SERVED")]
       /\ LedgerAfter(h)
  /\ UNCHANGED <<circleTx, usedNonces, moved, poll, pay, ver, quote, extVars>>

\* GET /api/article/[slug]: articleHandler wrapped by withX402
ArticleGET(r, slug, payment, hdrTx) ==
  withX402Receive(r, "article", slug, payment, hdrTx)

\* GET /api/premium: premiumHandler wrapped by withX402
PremiumGET(r, slug, payment, hdrTx) ==
  withX402Receive(r, "premium", slug, payment, hdrTx)

\* the gate asks the facilitator to verify
GateVerify(r) ==
  /\ req[r].state = "PAYLOAD_RECEIVED"
  /\ LET v == facilitatorVerify(req[r].payment) IN
       req' = [req EXCEPT ![r] =
         IF v.isValid
           THEN [@ EXCEPT !.state = "VERIFIED", !.events = Append(@, "verify")]
           ELSE [@ EXCEPT !.state = "REJECTED", !.status = 402,
                          !.reason = v.invalidReason, !.events = Append(@, "verify")]]
  /\ UNCHANGED <<ledgerVars, circleTx, usedNonces, moved, poll, pay, ver, quote, extVars>>

\* the gate asks the facilitator to settle: the signer creates the Circle
\* transaction, or the creation fails
GateSettle(r) ==
  /\ req[r].state = "VERIFIED"
  /\ req' = [req EXCEPT ![r] = [@ EXCEPT !.state = "SETTLING", !.events = Append(@, "settle")]]
  /\ \E created \in BOOLEAN :
       circleTx' = [circleTx EXCEPT ![r] =
                      IF created THEN Snapshot("QUEUED", NoTx) ELSE NoCircleTx]
  /\ UNCHANGED <<ledgerVars, usedNonces, moved, poll, pay, ver, quote, extVars>>

\* the settle call returns: on success the handler runs and its response is
\* returned with the transaction; otherwise a failure response, no handler
GateSettleReturn(r) ==
  /\ req[r].state = "SETTLING"
  /\ LET resp == SettleResponse(r)
         q == req[r]
     IN IF resp.status = 200 /\ resp.success
          THEN LET h == Handler(q.route, store, nextId, q.slug, q.payment, q.hdrTx) IN
            /\ req' = [req EXCEPT ![r] =
                 Handled([q EXCEPT !.settleTx = resp.transaction,
                                   !.events = Append(@, "settle_ok")], h, "FULFILLED")]
            /\ LedgerAfter(h)
          ELSE
            /\ req' = [req EXCEPT ![r] =
                 [q EXCEPT !.state = "SETTLE_FAILED", !.status = 402,
                           !.reason = resp.errorReason,
                           !.events = Append(@, "settle_failed")]]
            /\ UNCHANGED ledgerVars
  /\ UNCHANGED <<circleTx, usedNonces, moved, poll, pay, ver, quote, extVars>>

(***************************************************************************)
(* The execution backend: Circle's screening and the token contract.       *)
(***************************************************************************)
\* the chain executes transferWithAuthorization: the nonce is consumed with
\* the transfer, a consumed nonce reverts
ChainExecute(r) ==
  /\ circleTx[r].state = "QUEUED"
  /\ LET key == AuthKey(req[r].payment) IN
       IF key \in usedNonces
         THEN /\ circleTx' = [circleTx EXCEPT ![r] = Snapshot("FAILED", NoTx)]
              /\ UNCHANGED <<usedNonces, moved>>
         ELSE /\ circleTx' = [circleTx EXCEPT ![r] = Snapshot("COMPLETE", HashOf(r))]
              /\ usedNonces' = usedNonces \cup {key}
              /\ moved' = [moved EXCEPT ![key] = @ + 1]
  /\ UNCHANGED <<ledgerVars, req, poll, pay, ver, quote, extVars>>

\* the transaction ends without a transfer
CircleReject(r) ==
  /\ circleTx[r].state = "QUEUED"
  /\ \E s \in FailureStates : circleTx' = [circleTx EXCEPT ![r] = Snapshot(s, NoTx)]
  /\ UNCHANGED <<ledgerVars, req, usedNonces, moved, poll, pay, ver, quote, extVars>>

(***************************************************************************)
(* The stats endpoints.                                                    *)
(***************************************************************************)
\* POST /api/stats: 400 when a field is missing, else updatePaymentTxHash
StatsPOST(slug, payer, txHash) ==
  /\ IF slug = EmptyStr \/ payer = EmptyStr \/ Falsy(txHash)
       THEN UNCHANGED ledgerVars
       ELSE LET u == updatePaymentTxHash(store, slug, payer, txHash) IN
         /\ store' = u.store
         /\ UNCHANGED nextId
  /\ UNCHANGED <<gateVars, poll, pay, ver, quote, extVars>>

\* POST /api/stats after the body is parsed: the response and the store it
\* leaves; updated: what updatePaymentTxHash returned
statsPOST(st, slug, payer, txHash) ==
  IF slug = EmptyStr \/ payer = EmptyStr \/ Falsy(txHash)
    THEN [store |-> st, status |-> 400, success |-> FALSE, updated |-> FALSE,
          error |-> "Missing required fields: slug, payer, txHash"]
    ELSE LET u == updatePaymentTxHash(st, slug, payer, txHash) IN
      IF u.updated
        THEN [store |-> u.store, status |-> 200, success |-> TRUE, updated |-> TRUE,
              error |-> "none"]
        ELSE [store |-> u.store, status |-> 404, success |-> FALSE, updated |-> FALSE,
              error |-> "No matching payment found to update"]

\* PostSpec: the POST /api/stats requests, each one at its await of
\* req.json() ("idle": not sent, "parsed": the body is there, "done": answered)
PostIds == 1 .. MaxPosts

NoPost ==
  [pc |-> "idle", slug |-> EmptyStr, payer |-> EmptyStr, txHash |-> EmptyStr,
   status |-> 0, success |-> FALSE, updated |-> FALSE, error |-> "none",
   rec |-> 0, found |-> 0]

\* the first Date.now() of CacheSpec
CacheStart == 100000
\* the id of the first wallet created in WalletSpec
FirstNewWalletId == 10

\* CacheSpec: the clock, whether a payment was recorded since the cache was
\* last written (ghost), and the GET /api/stats in flight: pc is "idle",
\* "fetching" (at its awaits of the Circle API) or "done" (answered);
\* attempted: it went to the Circle API; balance, wallet: what it answered;
\* age: the age of the cache when it decided not to refresh; dirty: a
\* payment was recorded while it was fetching (ghost); stale: a payment was
\* recorded and no refresh that started after it has completed (ghost)
NoGet ==
  [pc |-> "idle", attempted |-> FALSE, balance |-> NoTx, wallet |-> NoTx,
   age |-> 0, paid |-> FALSE, dirty |-> FALSE]

NoCache == [now |-> CacheStart, paid |-> FALSE, stale |-> FALSE, failed |-> FALSE,
            get |-> NoGet]

\* GET /api/stats/reset
ResetGET ==
  /\ store' = resetStats(store)
  /\ UNCHANGED <<nextId, gateVars, poll, pay, ver, quote, extVars>>

NoPoll == [called |-> FALSE, obs |-> <<NotFound>>, maxAttempts |-> 0,
           result |-> WaitResult("none", NoTx, 0, 0)]

(***************************************************************************)
(* arc_pay_for_content (tools/core), one run.  Decimal strings are          *)
(* modelled by their value in USDC smallest units: parseFloat(s) * 10^6,   *)
(* taken as exact.                                                         *)
(***************************************************************************)
Undefined == "undefined"

\* parseFloat(s.replace('$', '')) in smallest units
ParseFloatUnits(s) ==
  CASE s = "0.01" -> 10000
    [] s = "$0.01" -> 10000
    [] s = "$0.02" -> 20000
    [] s = "1.00" -> UnitsPerUSDC
    [] s = "$2.00" -> 2 * UnitsPerUSDC
    [] s = "0.02" -> 20000
    [] OTHER -> 0

\* BigInt(s) for the amount strings of the model
BigIntOf(s) ==
  CASE s = "10000" -> 10000
    [] s = "2000000" -> 2000000
    [] OTHER -> 0

\* x || y on strings
OrElse(x, y) == IF x = Undefined \/ x = EmptyStr THEN y ELSE x

\* const maxPriceUSDC = parseFloat(max_price || '1.00')
MaxPriceUnits(max_price) == ParseFloatUnits(OrElse(max_price, "1.00"))

Requirement(amount, maxAmountRequired, price) ==
  [amount |-> amount, maxAmountRequired |-> maxAmountRequired, price |-> price]

\* Step 4: the amount to sign, or the max_price error
CalculateAmount(requirements, max_price) ==
  IF OrElse(requirements.amount, Undefined) # Undefined
    THEN [error |-> FALSE, amount |-> BigIntOf(requirements.amount)]
    ELSE LET priceStr == OrElse(requirements.maxAmountRequired,
                                OrElse(requirements.price, "$0.01"))
             priceNum == ParseFloatUnits(priceStr)
         IN IF priceNum > MaxPriceUnits(max_price)
              THEN [error |-> TRUE, amount |-> 0]
              ELSE [error |-> FALSE, amount |-> priceNum]

NoRequirement == Requirement(Undefined, Undefined, Undefined)

\* the MCP server's arc_pay_for_content: Step 4 with the max_price error thrown
mcpAmount(requirements, max_price) == CalculateAmount(requirements, max_price)

\* useX402.paidFetch: maxAmountRequired, else 0.01
useX402Amount(requirements) ==
  LET priceStr == OrElse(requirements.maxAmountRequired, "0.01")
  IN [error |-> FALSE, amount |-> ParseFloatUnits(priceStr)]

\* scripts/test-article.ts: maxAmountRequired, else price, else 0.01
testArticleAmount(requirements) ==
  LET priceStr == OrElse(requirements.maxAmountRequired,
                         OrElse(requirements.price, "0.01"))
  IN [error |-> FALSE, amount |-> ParseFloatUnits(priceStr)]

\* scripts/test-ui-flow.ts, the article flow: amount, else maxAmountRequired,
\* else price, else $0.01, with no max_price
testUiFlowAmount(requirements) ==
  IF OrElse(requirements.amount, Undefined) # Undefined
    THEN [error |-> FALSE, amount |-> BigIntOf(requirements.amount)]
    ELSE LET priceStr == OrElse(requirements.maxAmountRequired,
                                OrElse(requirements.price, "$0.01"))
         IN [error |-> FALSE, amount |-> ParseFloatUnits(priceStr)]

\* the buyer-side call sites
BuyerSites == {"core", "mcp", "useX402", "test-article", "test-ui-flow"}

ResolveAmount(site, requirements, max_price) ==
  CASE site = "core" -> CalculateAmount(requirements, max_price)
    [] site = "mcp" -> mcpAmount(requirements, max_price)
    [] site = "useX402" -> useX402Amount(requirements)
    [] site = "test-article" -> testArticleAmount(requirements)
    [] site = "test-ui-flow" -> testUiFlowAmount(requirements)

\* ResolveSpec: no requirement received yet
NoResolved ==
  [received |-> FALSE, requirements |-> NoRequirement, max_price |-> Undefined,
   done |-> {}, amount |-> [site \in BuyerSites |-> 0],
   error |-> [site \in BuyerSites |-> FALSE]]
NoPay ==
  [pc |-> "idle", max_price |-> Undefined, requirements |-> NoRequirement,
   amount |-> 0, signed |-> << >>, retries |-> 0, result |-> "none",
   initialStatus |-> 0, hasHeader |-> FALSE, options |-> 0, paid |-> "absent"]

PayMaxPrices == {Undefined, "0.01", "1.00"}
PayRequirements ==
  {Requirement(a, m, p) : a \in {Undefined, EmptyStr, "10000", "2000000"},
                          m \in {Undefined, "0.02"},
                          p \in {Undefined, "$0.01", "$2.00"}}

\* the tool is called; Step 1 looks the wallet up
PayStart(max_price, walletFound) ==
  /\ pay.pc = "idle"
  /\ pay' = IF walletFound
              THEN [pay EXCEPT !.pc = "initial", !.max_price = max_price]
              ELSE [pay EXCEPT !.pc = "done", !.max_price = max_price,
                               !.result = "wallet not found"]
  /\ UNCHANGED <<ledgerVars, gateVars, poll, ver, quote, extVars>>

\* the initial response as the tool saw it (ghost)
Seen(p, status, header, accepts) ==
  [p EXCEPT !.initialStatus = status, !.hasHeader = header, !.options = Len(accepts)]

\* Steps 2 to 4 without the test of the initial status
PayInitialAnyStatus(status, header, accepts) ==
  /\ pay.pc = "initial"
  /\ pay' =
       LET p == Seen(pay, status, header, accepts) IN
       IF ~header THEN [p EXCEPT !.pc = "done", !.result = "missing header"]
       ELSE IF accepts = << >> THEN [p EXCEPT !.pc = "done", !.result = "no options"]
       ELSE LET c == CalculateAmount(accepts[1], pay.max_price) IN
         IF c.error
           THEN [p EXCEPT !.pc = "done", !.requirements = accepts[1],
                          !.result = "exceeds max_price"]
           ELSE [p EXCEPT !.pc = "sign", !.requirements = accepts[1],
                          !.amount = c.amount]
  /\ UNCHANGED <<ledgerVars, gateVars, poll, ver, quote, extVars>>

\* Steps 2 to 4: the initial response, its requirements, the amount; a
\* response that is not 402 is returned with paid: false
PayInitial(status, header, accepts) ==
  /\ pay.pc = "initial"
  /\ pay' =
       LET p == Seen(pay, status, header, accepts) IN
       IF status # 402
         THEN [p EXCEPT !.pc = "done", !.result = "not paywalled", !.paid = "false"]
       ELSE IF ~header THEN [p EXCEPT !.pc = "done", !.result = "missing header"]
       ELSE IF accepts = << >> THEN [p EXCEPT !.pc = "done", !.result = "no options"]
       ELSE LET c == CalculateAmount(accepts[1], pay.max_price) IN
         IF c.error
           THEN [p EXCEPT !.pc = "done", !.requirements = accepts[1],
                          !.result = "exceeds max_price"]
           ELSE [p EXCEPT !.pc = "sign", !.requirements = accepts[1],
                          !.amount = c.amount]
  /\ UNCHANGED <<ledgerVars, gateVars, poll, ver, quote, extVars>>

\* Steps 5 and 6: the authorization for the amount is signed via Circle
PaySign ==
  /\ pay.pc = "sign"
  /\ pay' = [pay EXCEPT !.pc = "retry", !.signed = Append(@, pay.amount)]
  /\ UNCHANGED <<ledgerVars, gateVars, poll, ver, quote, extVars>>

\* Steps 7 to 10: the paid retry and its outcome
PayRetry(ok) ==
  /\ pay.pc = "retry"
  /\ pay' = [pay EXCEPT !.pc = "done", !.retries = @ + 1,
                        !.result = IF ok THEN "paid" ELSE "payment failed",
                        !.paid = IF ok THEN "true" ELSE "absent"]
  /\ UNCHANGED <<ledgerVars, gateVars, poll, ver, quote, extVars>>

(***************************************************************************)
(* The registry's money parser (lib/x402).                                 *)
(***************************************************************************)
\* amount * 1_000_000
MoneyUnits == 1000000
\* the smallest units of one cent
CentUnits == MoneyUnits \div 100

\* the prices in cents up to $10.00 for which the double product
\* amount * 1_000_000 is below the decimal product (2.01 * 1000000 is
\* 2009999.9999999998)
FloatProductBelow ==
  {201, 203, 205, 207, 209, 402, 406, 410, 414, 418,
   803, 804, 811, 812, 819, 820, 828, 829, 836, 837}

\* Math.floor(amount * 1_000_000) for a price of cents / 100 dollars
FloorOfProduct(cents) ==
  IF cents \in FloatProductBelow THEN cents * CentUnits - 1 ELSE cents * CentUnits

\* evmScheme.registerMoneyParser: the amount in units of Arc's USDC, or null
\* for another network
moneyParser(cents, network) ==
  IF network = ARC_NETWORK
    THEN [handled |-> TRUE, amount |-> FloorOfProduct(cents), asset |-> "USDC"]
    ELSE [handled |-> FALSE, amount |-> 0, asset |-> EmptyStr]

NoQuote ==
  [called |-> FALSE, cents |-> 0, network |-> EmptyStr,
   parsed |-> [handled |-> FALSE, amount |-> 0, asset |-> EmptyStr]]

(***************************************************************************)
(* The payee of a requirement: lib/x402 payToAddress and the merchant      *)
(* wallet of lib/circle-wallet.                                            *)
(***************************************************************************)
\* the address payToAddress falls back to
BuiltInPayee == "0x897F9dDD37f929F874B3c3FaD3F0682ff561c0D7"

\* process.env.PAY_TO_ADDRESS || "0x897F..."; an unset variable is undefined
payToAddress(env) == IF env = Undefined \/ env = EmptyStr THEN BuiltInPayee ELSE env

\* createPaymentConfig: the accepts list of an endpoint priced amount
createPaymentConfig(env, amount) ==
  [thrown |-> FALSE,
   accepts |-> <<[PaymentRequirements(amount) EXCEPT !.payTo = payToAddress(env)]>>]

Wallet(id, blockchain, accountType, address) ==
  [id |-> id, address |-> address, blockchain |-> blockchain, accountType |-> accountType]

\* the wallets filter keeps
ArcEOA(w) == w.blockchain = "ARC-TESTNET" /\ w.accountType = "EOA"

\* filter(...).sort(by id): the ids of the kept wallets, ascending
RECURSIVE SortedIds(_)
SortedIds(ids) ==
  IF ids = {} THEN << >>
  ELSE LET m == CHOOSE i \in ids : \A j \in ids : i <= j
       IN <<m>> \o SortedIds(ids \ {m})

ArcWallets(wallets) ==
  LET kept == {w \in wallets : ArcEOA(w)}
      order == SortedIds({w.id : w \in kept})
  IN [i \in 1 .. Len(order) |-> CHOOSE w \in kept : w.id = order[i]]

\* WalletSpec: the calls of createAgentWallet in flight, each at one of its
\* awaits: "listing" (listWallets), "walletSet" (createWalletSet), "creating"
\* (createWallets), or "idle" / "done"; result: the id of the wallet returned
Callers == 1 .. MaxCallers

NoCall == [pc |-> "idle", result |-> 0, thrown |-> FALSE, created |-> FALSE]

\* the account with no wallet; made: the ids of the wallets createAgentWallet
\* created (ghost); seeded: wallets were made outside createAgentWallet;
\* overlap: two calls were in flight together (ghost)
NoCircle ==
  [wallets |-> {}, made |-> {}, seeded |-> FALSE, overlap |-> FALSE,
   calls |-> [c \in Callers |-> NoCall]]

\* the id Circle gives the next wallet: above every id in the account
NewWalletId(wallets) ==
  IF wallets = {} THEN FirstNewWalletId
  ELSE LET top == CHOOSE i \in {w.id : w \in wallets} : \A w \in wallets : w.id <= i
       IN IF top < FirstNewWalletId THEN FirstNewWalletId ELSE top + 1

\* createAgentWallet after listWallets answered: the first ARC-TESTNET EOA
\* wallet by id, or none
existingArcWallet(wallets) ==
  LET arcWallets == ArcWallets(wallets) IN
    IF Len(arcWallets) > 0
      THEN [found |-> TRUE, id |-> arcWallets[1].id]
      ELSE [found |-> FALSE, id |-> 0]

\* getMerchantWallet: the second ARC-TESTNET EOA wallet by id, or an Error
getMerchantWallet(wallets) ==
  LET arcWallets == ArcWallets(wallets) IN
    IF Len(arcWallets) < 2
      THEN [thrown |-> TRUE, id |-> 0, address |-> EmptyStr]
      ELSE [thrown |-> FALSE, id |-> arcWallets[2].id, address |-> arcWallets[2].address]

\* the requirements of a route whose payee is the merchant wallet: the
\* Error of getMerchantWallet ends the request
merchantPaymentConfig(wallets, amount) ==
  LET m == getMerchantWallet(wallets) IN
    IF m.thrown
      THEN [thrown |-> TRUE, accepts |-> << >>]
      ELSE [thrown |-> FALSE,
            accepts |-> <<[PaymentRequirements(amount) EXCEPT !.payTo = m.address]>>]

NoConf ==
  [called |-> FALSE, source |-> "none", env |-> Undefined, wallets |-> {},
   config |-> [thrown |-> FALSE, accepts |-> << >>]]

Init ==
  /\ store = EmptyStore
  /\ nextId = 1
  /\ req = [r \in Req |-> IdleRequest]
  /\ circleTx = [r \in Req |-> NoCircleTx]
  /\ usedNonces = {}
  /\ moved = [k \in AuthKeys |-> 0]
  /\ poll = NoPoll
  /\ pay = NoPay
  /\ ver = NoVer
  /\ quote = NoQuote
  /\ conf = NoConf
  /\ posts = [c \in PostIds |-> NoPost]
  /\ cache = NoCache
  /\ resolved = NoResolved
  /\ circle = NoCircle

GateHeaderTxs == {NoTx, FakeTx}
PostPayers == {"0xab", EmptyStr}
\* the transaction a client posts: made up, missing, or the one its
\* payment-response header carried
PostTxs == {FakeTx, EmptyStr} \cup {req[r].settleTx : r \in Req}

Next ==
  \/ \E r \in Req, payment \in GatePayments, hdrTx \in GateHeaderTxs :
       ArticleGET(r, "arc-blockchain-guide", payment, hdrTx)
  \/ \E r \in Req, payment \in GatePayments :
       ArticleGET(r, MissingSlug, payment, NoTx)
  \/ \E r \in Req, payment \in GatePayments :
       PremiumGET(r, "premium", payment, NoTx)
  \/ \E r \in Req : GateVerify(r)
  \/ \E r \in Req : GateSettle(r)
  \/ \E r \in Req : GateSettleReturn(r)
  \/ \E r \in Req : ChainExecute(r)
  \/ \E r \in Req : CircleReject(r)
  \/ \E slug \in {"arc-blockchain-guide"}, payer \in PostPayers, txHash \in PostTxs :
       StatsPOST(slug, payer, txHash)
  \/ ResetGET

Spec == Init /\ [][Next]_vars

(***************************************************************************)
(* Properties of Spec.                                                     *)
(***************************************************************************)
Has(ev, e) == \E i \in 1 .. Len(ev) : ev[i] = e
Before(ev, a, b) ==
  \A i \in 1 .. Len(ev) : ev[i] = b => \E j \in 1 .. (i - 1) : ev[j] = a

\* C1: in every request verify comes before settle, a successful settle of
\* that request comes before the handler, and the body is released only
\* after the request's own settlement succeeded
C1_VerifySettleHandlerOrder ==
  \A r \in Req :
    LET ev == req[r].events IN
      /\ Before(ev, "verify", "settle")
      /\ Before(ev, "settle", "settle_ok")
      /\ Before(ev, "settle_ok", "handler")
      /\ req[r].released =>
           /\ Has(ev, "settle_ok")
           /\ circleTx[r].state = "COMPLETE"
           /\ req[r].settleTx = circleTx[r].txHash

C1_Witness ==
  \E r \in Req :
    /\ req[r].released
    /\ req[r].events = <<"verify", "settle", "settle_ok", "handler">>

SettleFailureReasons ==
  {"timed out", "Transaction failed", "Transaction was cancelled",
   "Transaction was denied", "Failed to create contract execution transaction"}

PayloadRequests(key) ==
  {r \in Req : req[r].payment.kind = "payload" /\ AuthKey(req[r].payment) = key}

\* C3: per authorization (from, nonce) at most one settle succeeds, at most
\* one transfer is executed and at most one request is fulfilled; every other
\* attempt ends as a failed settle carrying the signer's reason (the revert
\* of a consumed nonce: "Transaction failed")
C3_SingleUseAuthorization ==
  /\ \A key \in AuthKeys :
       /\ Cardinality({r \in PayloadRequests(key) : Has(req[r].events, "settle_ok")}) <= 1
       /\ moved[key] <= 1
       /\ Cardinality({r \in PayloadRequests(key) : req[r].state = "FULFILLED"}) <= 1
  /\ \A r \in Req :
       req[r].state = "SETTLE_FAILED" =>
         /\ req[r].status = 402
         /\ ~req[r].released
         /\ req[r].reason \in SettleFailureReasons
         /\ req[r].reason = "Transaction failed" => circleTx[r].state = "FAILED"

C3_Witness ==
  \E r1, r2 \in Req :
    /\ r1 # r2
    /\ AuthKey(req[r1].payment) = AuthKey(req[r2].payment)
    /\ req[r1].state = "FULFILLED"
    /\ req[r2].state = "SETTLE_FAILED"
    /\ circleTx[r2].state = "FAILED"
    /\ req[r2].reason = "Transaction failed"
    /\ moved[AuthKey(req[r1].payment)] = 1

\* C4: a settlement that ended DENIED, FAILED or CANCELLED gives a failure
\* response, releases no body and never adds a payment record
C4_FailedSettlementNotRecorded ==
  \A r \in Req :
    circleTx[r].state \in FailureStates =>
      /\ req[r].state \in {"SETTLING", "SETTLE_FAILED"}
      /\ req[r].state = "SETTLE_FAILED" => req[r].status = 402
      /\ ~req[r].released
      /\ req[r].recorded = 0
      /\ ~Has(req[r].events, "handler")

C4_Witness ==
  \E r \in Req :
    /\ circleTx[r].state = "DENIED"
    /\ req[r].state = "SETTLE_FAILED"
    /\ req[r].route = "article"
    /\ getArticleBySlug(req[r].slug)

\* C6: a record's txHash is non-null only if the settlement of that record's
\* own payment completed on chain with that hash
C6_TxHashOnlyFromSettlement ==
  \A i \in 1 .. Len(store.payments) :
    LET p == store.payments[i] IN
      p.txHash # NoTx =>
        \E r \in Req :
          /\ req[r].recordId = p.id
          /\ circleTx[r].state = "COMPLETE"
          /\ circleTx[r].txHash = p.txHash

Fulfils(r) == req[r].state # "FULFILLED" /\ req'[r].state = "FULFILLED"
Records(r) == req'[r].recorded = req[r].recorded + 1

\* C9: a request produces a recordPayment call exactly when it reaches
\* FULFILLED, and exactly one; totalPayments grows by the number of requests
\* fulfilled
C9_OneRecordPerFulfilled ==
  [][ /\ \A r \in Req : Fulfils(r) <=> Records(r)
      /\ \A r \in Req : req'[r].recorded <= 1
      /\ req' # req =>
           store'.totalPayments =
             store.totalPayments + Cardinality({r \in Req : Fulfils(r)}) ]_vars

(***************************************************************************)
(* PaySpec: one run of arc_pay_for_content.                                *)
(***************************************************************************)
PayNext ==
  \/ \E max_price \in PayMaxPrices, walletFound \in BOOLEAN : PayStart(max_price, walletFound)
  \/ \E status \in {200, 402}, header \in BOOLEAN,
        accepts \in {<< >>} \cup {<<q>> : q \in PayRequirements} :
       PayInitial(status, header, accepts)
  \/ PaySign
  \/ \E ok \in BOOLEAN : PayRetry(ok)

PaySpec == Init /\ [][PayNext]_vars

\* C2: the tool never signs an authorization for more than max_price, and a
\* price above max_price ends in an error without a signature
C2_NeverSignsAboveMaxPrice ==
  /\ \A i \in 1 .. Len(pay.signed) : pay.signed[i] <= MaxPriceUnits(pay.max_price)
  /\ pay.pc \in {"sign", "retry"} => pay.amount <= MaxPriceUnits(pay.max_price)

(***************************************************************************)
(* PollSpec: waitForCircleTransaction applied to observation sequences.    *)
(***************************************************************************)
PollSnapshots ==
  {Snapshot(st, NoTx) : st \in TxStates} \cup {Snapshot("COMPLETE", "0xtx1"), Snapshot("COMPLETE", EmptyStr), NotFound}

RECURSIVE SeqsUpTo(_, _)
SeqsUpTo(S, n) ==
  IF n = 0 THEN {<< >>}
  ELSE LET shorter == SeqsUpTo(S, n - 1) IN
    shorter \cup {Append(q, x) : q \in shorter, x \in S}

\* n polls that see the transaction still SENT
Pending(n) == [i \in 1 .. n |-> Snapshot("SENT", NoTx)]

PollPads == {0, DefaultMaxAttempts - 1, DefaultMaxAttempts}
PollBudgets == {0, 1, 2, DefaultMaxAttempts}

PollCall(obs, maxAttempts) ==
  /\ ~poll.called
  /\ poll' = [called |-> TRUE, obs |-> obs, maxAttempts |-> maxAttempts,
              result |-> waitForCircleTransaction(obs, maxAttempts)]
  /\ UNCHANGED <<ledgerVars, gateVars, pay, ver, quote, extVars>>

\* the caller has taken the result or the failure
PollReturn ==
  /\ poll.called
  /\ poll' = NoPoll
  /\ UNCHANGED <<ledgerVars, gateVars, pay, ver, quote, extVars>>

PollNext ==
  \/ \E n \in PollPads, tail \in SeqsUpTo(PollSnapshots, MaxObsTail) \ {<< >>},
        maxAttempts \in PollBudgets :
       PollCall(Pending(n) \o tail, maxAttempts)
  \/ PollReturn

PollSpec == Init /\ [][PollNext]_vars

PollKinds == {"ok", "failed", "cancelled", "denied", "no_hash", "not_found", "timeout"}
SeenPending(obs, i) == ObservedAt(obs, i) # NotFound /\ ObservedAt(obs, i).state \in PendingStates

\* C10: waitForCircleTransaction ends, returning or failing, after at most
\* maxAttempts polls, with a delay after every poll that saw a pending
\* transaction, and polls no more once a poll saw COMPLETE, FAILED, CANCELLED
\* or DENIED; it times out exactly when maxAttempts polls all saw it pending
C10_PollingBounded ==
  poll.called =>
    LET res == poll.result
        obs == poll.obs
    IN /\ res.kind \in PollKinds
       /\ res.polls <= poll.maxAttempts
       /\ \A i \in 1 .. (res.polls - 1) : SeenPending(obs, i)
       /\ res.sleeps = Cardinality({i \in 1 .. res.polls : SeenPending(obs, i)})
       /\ res.kind = "timeout" <=>
            /\ res.polls = poll.maxAttempts
            /\ \A i \in 1 .. res.polls : SeenPending(obs, i)
       /\ res.kind = "ok" =>
            /\ ObservedAt(obs, res.polls).state = "COMPLETE"
            /\ res.txHash = ObservedAt(obs, res.polls).txHash
            /\ res.txHash # NoTx

C10_Witness ==
  /\ poll.called
  /\ poll.maxAttempts = DefaultMaxAttempts
  /\ poll.result.kind = "failed"
  /\ poll.result.polls = DefaultMaxAttempts
  /\ Len(poll.obs) > DefaultMaxAttempts

(***************************************************************************)
(* LedgerSpec: the ledger under the calls that reach it: articleHandler    *)
(* for a request the gate let through, POST /api/stats and the reset.      *)
(***************************************************************************)
LedgerPayers == Addresses \cup {EmptyStr}
LedgerPostTxs == {FakeTx, HashNames[1], EmptyStr}

articleHandlerRun(slug, from, hdrTx) ==
  /\ nextId <= MaxLedgerRecords
  /\ LET h == articleHandler(store, nextId, slug,
                             Authorization(from, "n1", RequiredAmount), hdrTx)
     IN /\ store' = h.store
        /\ nextId' = IF h.recorded THEN nextId + 1 ELSE nextId
  /\ UNCHANGED <<gateVars, poll, pay, ver, quote, extVars>>

LedgerNext ==
  \/ \E slug \in ArticleSlugs \cup {MissingSlug}, from \in LedgerPayers,
        hdrTx \in GateHeaderTxs :
       articleHandlerRun(slug, from, hdrTx)
  \/ \E slug \in ArticleSlugs, payer \in LedgerPayers, txHash \in LedgerPostTxs :
       StatsPOST(slug, payer, txHash)
  \/ ResetGET

LedgerSpec == Init /\ [][LedgerNext]_vars

\* the positions of the records updatePaymentTxHash(slug, payer, _) can pick
Unattached(ps, slug, payer) ==
  {i \in 1 .. Len(ps) :
     /\ ps[i].slug = slug
     /\ toLowerCase(ps[i].payer) = toLowerCase(payer)
     /\ ps[i].txHash = NoTx}

Lowest(S) == CHOOSE i \in S : \A j \in S : i <= j

\* the head of the list is the record of the last recordPayment, untouched since
JustRecorded(ps) ==
  /\ Len(ps) > 0
  /\ ps[1].id = nextId - 1
  /\ ps[1].txHash = ps[1].txAtRecord

\* C5 as stated: after recordPayment(p), updatePaymentTxHash for p's slug and
\* a payer equal to p.payer ignoring case returns true and sets txHash on
\* exactly one record, the most recent unattached one with that slug and
\* payer, and an immediately repeated call returns false and changes nothing
C5_AttachThenRepeatFalse ==
  \A payer \in Addresses, tx \in {FakeTx, HashNames[1]} :
    LET ps == store.payments IN
      (JustRecorded(ps) /\ toLowerCase(payer) = toLowerCase(ps[1].payer)) =>
        LET u == updatePaymentTxHash(store, ps[1].slug, payer, tx)
            u2 == updatePaymentTxHash(u.store, ps[1].slug, payer, tx)
            M == Unattached(ps, ps[1].slug, payer)
        IN /\ u.updated
           /\ M # {}
           /\ u.store = [store EXCEPT !.payments[Lowest(M)].txHash = tx]
           /\ ~u2.updated
           /\ u2.store = u.store

\* C5, amended: updatePaymentTxHash returns true exactly when some record
\* with that slug and payer (ignoring case) has no txHash, and then sets
\* txHash on the most recent such record and on nothing else; for a record p
\* just recorded without a txHash that record is p; a repeated call returns
\* false and changes nothing exactly when no second such record exists
C5_AttachMostRecentUnattached ==
  \A slug \in ArticleSlugs, payer \in Addresses, tx \in {FakeTx, HashNames[1]} :
    LET ps == store.payments
        M == Unattached(ps, slug, payer)
        u == updatePaymentTxHash(store, slug, payer, tx)
        u2 == updatePaymentTxHash(u.store, slug, payer, tx)
    IN /\ u.updated <=> M # {}
       /\ M = {} => u.store = store
       /\ M # {} => u.store = [store EXCEPT !.payments[Lowest(M)].txHash = tx]
       /\ (/\ JustRecorded(ps)
           /\ ps[1].txHash = NoTx
           /\ ps[1].slug = slug
           /\ toLowerCase(ps[1].payer) = toLowerCase(payer))
            => u.updated /\ u.store.payments[1].txHash = tx
       /\ u2.updated <=> Cardinality(M) >= 2
       /\ ~u2.updated => u2.store = u.store

\* an update attached a hash to the newer of two matching records while the
\* older one is still unattached
C5_Witness ==
  \E i, j \in 1 .. Len(store.payments) :
    LET a == store.payments[i]
        b == store.payments[j]
    IN /\ i < j
       /\ a.slug = b.slug
       /\ a.payer # b.payer
       /\ toLowerCase(a.payer) = toLowerCase(b.payer)
       /\ a.txAtRecord = NoTx /\ a.txHash # NoTx
       /\ b.txHash = NoTx

\* C8: a record still in the list is changed by nothing but a first
\* attachment of a txHash: a record with a txHash never changes again, and a
\* change to a record leaves every field but txHash as it was
C8_RecordMutatedAtMostOnce ==
  [][ \A i \in 1 .. Len(store.payments), j \in 1 .. Len(store'.payments) :
        LET a == store.payments[i]
            b == store'.payments[j]
        IN a.id = b.id =>
             /\ a.txHash # NoTx => b = a
             /\ b # a => b = [a EXCEPT !.txHash = b.txHash] /\ b.txHash # NoTx ]_vars

\* a record got its hash from an update and a later payment was recorded, and
\* another record that matches the same slug and payer is attached too
C8_Witness ==
  \E i, j \in 1 .. Len(store.payments) :
    LET a == store.payments[i]
        b == store.payments[j]
    IN /\ i < j
       /\ a.slug = b.slug
       /\ toLowerCase(a.payer) = toLowerCase(b.payer)
       /\ b.txAtRecord = NoTx /\ b.txHash # NoTx
       /\ a.txHash # NoTx

(***************************************************************************)
(* CapSpec: recordPayment past the length the list is kept at.             *)
(***************************************************************************)
recordPaymentRun ==
  /\ nextId <= MaxCapRecords
  /\ store' = recordPayment(store, Payment(nextId, "arc-blockchain-guide",
                                           ArticleAmount, NoTx, "0xab"))
  /\ nextId' = nextId + 1
  /\ UNCHANGED <<gateVars, poll, pay, ver, quote, extVars>>

CapNext ==
  \/ recordPaymentRun
  \/ ResetGET

CapSpec == Init /\ [][CapNext]_vars

\* the ids of the payments recorded since the last reset
RecordedSinceReset == (nextId - store.totalPayments) .. (nextId - 1)
ListedIds == {store.payments[i].id : i \in 1 .. Len(store.payments)}

\* C7 as stated: a payment recorded since the last reset is in the list
C7_RecordRemainsUntilReset ==
  \A id \in RecordedSinceReset : id \in ListedIds

\* C7, amended: a payment recorded since the last reset is in the list
\* exactly while fewer than 50 payments were recorded after it; the list is
\* newest first and nothing else is in it
C7_RecordRemainsUntilResetOrCap ==
  /\ \A id \in RecordedSinceReset :
       id \in ListedIds <=> (nextId - 1) - id < PaymentsKept
  /\ ListedIds \subseteq RecordedSinceReset
  /\ \A i \in 1 .. Len(store.payments) : store.payments[i].id = nextId - i

C7_Witness ==
  /\ store.totalPayments > PaymentsKept
  /\ Len(store.payments) = PaymentsKept
  /\ (nextId - store.totalPayments) \notin ListedIds

(***************************************************************************)
(* Settlement outcomes as the caller of /settle and the gate see them.     *)
(***************************************************************************)
\* the reasons executeContractCall fails with for a transaction that ended
\* FAILED, CANCELLED or DENIED
RejectionReasons ==
  {executeContractCall(TRUE, <<Snapshot(s, NoTx)>>).error : s \in FailureStates}

\* request r's settle returns in this step
SettleReturns(r) == req[r].state = "SETTLING" /\ req'[r].state # "SETTLING"

\* C11: a settle that returns while the transaction is still pending (the
\* polling budget is used up) fails with the timed-out reason, which is none
\* of the reasons given for FAILED, CANCELLED or DENIED; it is not a success,
\* the handler does not run, no body is released and the ledger is unchanged
C11_TimeoutIsDistinctFailure ==
  [][ \A r \in Req :
        (SettleReturns(r) /\ circleTx[r].state \in PendingStates) =>
          /\ req'[r].state = "SETTLE_FAILED"
          /\ req'[r].reason = "timed out"
          /\ req'[r].reason \notin RejectionReasons
          /\ req'[r].settleTx = NoTx
          /\ ~req'[r].released
          /\ ~Has(req'[r].events, "handler")
          /\ store' = store ]_vars

C11_Witness ==
  \E r \in Req :
    /\ req[r].state = "SETTLE_FAILED"
    /\ req[r].reason = "timed out"
    /\ circleTx[r].state \in PendingStates

EndedCompleteNoHash ==
  /\ poll.called
  /\ poll.result.polls >= 1
  /\ poll.result.kind # "timeout"
  /\ ObservedAt(poll.obs, poll.result.polls).state = "COMPLETE"
  /\ Falsy(ObservedAt(poll.obs, poll.result.polls).txHash)

\* C13: on COMPLETE without a transaction hash waitForCircleTransaction fails
\* and returns no hash, executeContractCall throws for the same observations,
\* and the settle answer built on it is no success; a returned result always
\* carries a hash
C13_CompleteWithoutHashFails ==
  poll.called =>
    LET e == executeContractCall(TRUE, poll.obs)
        resp == settleRoute(facilitatorSettle(writeContract(TRUE, poll.obs)))
    IN /\ EndedCompleteNoHash =>
            /\ poll.result.kind = "no_hash"
            /\ poll.result.txHash = NoTx
       /\ poll.result.kind = "ok" => ~Falsy(poll.result.txHash)
       /\ ~e.thrown => ~Falsy(e.txHash)
       /\ resp.success => ~Falsy(resp.transaction)
       /\ (\E i \in 1 .. DefaultMaxAttempts :
             /\ \A j \in 1 .. (i - 1) : SeenPending(poll.obs, j)
             /\ ObservedAt(poll.obs, i).state = "COMPLETE"
             /\ Falsy(ObservedAt(poll.obs, i).txHash))
            => /\ e.thrown
               /\ e.error = "Transaction complete but no txHash"
               /\ ~resp.success

C13_Witness ==
  /\ EndedCompleteNoHash
  /\ poll.result.polls > 1
  /\ ObservedAt(poll.obs, poll.result.polls).txHash = EmptyStr
  /\ executeContractCall(TRUE, poll.obs).thrown


(***************************************************************************)
(* VerifySpec: calls of POST /verify with payloads against the article's   *)
(* requirement, and with the payloads the buyers build.                    *)
(***************************************************************************)
BuyerAddress == "0xAB"

\* arc_pay_for_content Steps 5 to 7 and scripts/test-payment.ts: the
\* authorization and payload a buyer builds at time now for a requirement
BuyerAuthorization(from, requirements, now, nonce) ==
  TransferAuthorization(from, requirements.payTo, requirements.amount,
                        0, now + BuyerValiditySeconds, nonce)

BuyerPayload(from, requirements, now, nonce) ==
  PaymentPayload(AcceptedOf(requirements),
                 BuyerAuthorization(from, requirements, now, nonce), from)

\* the facilitator's clock at the calls: a small one and a Unix one
VerifyNows == {100, 1700000000}
VerifyValues == {RequiredAmount - 1, RequiredAmount, RequiredAmount + 1}
VerifyBalances == {0, RequiredAmount}
VerifyAccepted ==
  {Accepted(sc, nw, as, MerchantAddress, RequiredAmount) :
     sc \in {"exact", "upto"}, nw \in {ARC_NETWORK, "eip155:1"},
     as \in {"USDC", "EURC"}}
ValidAfters(now) == {0, now, now + 1}
ValidBefores(now) == {now, now + 1, now + MaxTimeoutSeconds, now + MaxTimeoutSeconds + 1}
\* the buyer's verify request reaches the facilitator this much later
VerifyDelays == {0, 1, BuyerValiditySeconds}

Verified(source, hasPayload, hasRequirements, payload, requirements, now, balance) ==
  LET v == verifyRoute(hasPayload, hasRequirements, payload, requirements, now, balance) IN
    [called |-> TRUE, source |-> source, status |-> v.status, isValid |-> v.isValid,
     invalidReason |-> v.invalidReason, now |-> now, balance |-> balance,
     endpoint |-> "verify", invoked |-> v.invoked, hasPayload |-> hasPayload,
     hasRequirements |-> hasRequirements, success |-> FALSE, errorReason |-> "none",
     error |-> v.error,
     payload |-> payload, requirements |-> requirements]

\* POST /verify with both body fields
VerifyCall ==
  /\ ~ver.called
  /\ \E now \in VerifyNows, accepted \in VerifyAccepted, value \in VerifyValues,
        to \in {MerchantAddress, OtherAddress}, signer \in {BuyerAddress, OtherAddress},
        balance \in VerifyBalances :
       \E validAfter \in ValidAfters(now), validBefore \in ValidBefores(now) :
         ver' = Verified("client", TRUE, TRUE,
                  PaymentPayload(accepted,
                    TransferAuthorization(BuyerAddress, to, value, validAfter,
                                          validBefore, "n1"),
                    signer),
                  PaymentRequirements(RequiredAmount), now, balance)
  /\ UNCHANGED <<ledgerVars, gateVars, poll, pay, quote, extVars>>

\* POST /verify with a body field missing
VerifyMissing ==
  /\ ~ver.called
  /\ \E hasPayload \in BOOLEAN, hasRequirements \in BOOLEAN, now \in VerifyNows :
       /\ ~(hasPayload /\ hasRequirements)
       /\ ver' = Verified("client", hasPayload, hasRequirements, NoVer.payload,
                          PaymentRequirements(RequiredAmount), now, RequiredAmount)
  /\ UNCHANGED <<ledgerVars, gateVars, poll, pay, quote, extVars>>

\* a funded buyer pays the article's requirement and the facilitator
\* verifies the payload delay seconds later
VerifyBuyer ==
  /\ ~ver.called
  /\ \E now \in VerifyNows, delay \in VerifyDelays, nonce \in GateNonces :
       ver' = Verified("buyer", TRUE, TRUE,
                BuyerPayload(BuyerAddress, PaymentRequirements(RequiredAmount), now, nonce),
                PaymentRequirements(RequiredAmount), now + delay, RequiredAmount)
  /\ UNCHANGED <<ledgerVars, gateVars, poll, pay, quote, extVars>>

\* the message of the Error a call of the facilitator ends with when the
\* chain reader or the custodial signer cannot be reached
BackendUnavailable == "fetch failed"

\* the Errors the catch of POST /settle tells apart: a settlement aborted
\* by a hook, and any other
SettleErrors == {"Settlement aborted", BackendUnavailable}

\* facilitator.settle ending with a thrown Error
settleThrown(message) ==
  [thrown |-> TRUE, success |-> FALSE, transaction |-> NoTx, errorReason |-> message]

\* POST /verify with both body fields while the backend cannot be reached
VerifyThrows ==
  /\ ~ver.called
  /\ \E now \in VerifyNows, nonce \in GateNonces :
       LET v == verifyRouteThrown(TRUE, TRUE, BackendUnavailable)
           requirements == PaymentRequirements(RequiredAmount) IN
         ver' = [NoVer EXCEPT !.called = TRUE, !.source = "client",
                              !.endpoint = "verify", !.status = v.status,
                              !.isValid = v.isValid, !.invalidReason = v.invalidReason,
                              !.invoked = v.invoked, !.hasPayload = TRUE,
                              !.hasRequirements = TRUE, !.error = v.error,
                              !.now = now,
                              !.payload = BuyerPayload(BuyerAddress, requirements, now, nonce),
                              !.requirements = requirements]
  /\ UNCHANGED <<ledgerVars, gateVars, poll, pay, quote, extVars>>

\* the outcomes of facilitator.settle: over a transaction that completed,
\* failed, was never created, stayed pending; and the thrown Errors
SettleOutcomes ==
  {facilitatorSettle(writeContract(created, <<Snapshot(state, txHash)>>)) :
     created \in BOOLEAN, state \in {"COMPLETE", "FAILED", "QUEUED"},
     txHash \in {NoTx, FakeTx}}
    \cup {settleThrown(message) : message \in SettleErrors}

\* POST /settle, with or without its body fields
SettleCall ==
  /\ ~ver.called
  /\ \E hasPayload \in BOOLEAN, hasRequirements \in BOOLEAN, now \in VerifyNows,
        f \in SettleOutcomes :
       LET a == settlePost(hasPayload, hasRequirements, f) IN
         ver' = [NoVer EXCEPT !.called = TRUE, !.source = "client",
                              !.endpoint = "settle", !.status = a.status,
                              !.invoked = a.invoked, !.hasPayload = hasPayload,
                              !.hasRequirements = hasRequirements,
                              !.success = a.success, !.errorReason = a.errorReason,
                              !.error = a.error, !.now = now,
                              !.requirements = PaymentRequirements(RequiredAmount)]
  /\ UNCHANGED <<ledgerVars, gateVars, poll, pay, quote, extVars>>

VerifyReturn ==
  /\ ver.called
  /\ ver' = NoVer
  /\ UNCHANGED <<ledgerVars, gateVars, poll, pay, quote, extVars>>

VerifyNext ==
  VerifyCall \/ VerifyMissing \/ VerifyBuyer \/ VerifyThrows \/ SettleCall \/ VerifyReturn

VerifySpec == Init /\ [][VerifyNext]_vars


(***************************************************************************)
(* The paid path through the gate.                                         *)
(***************************************************************************)
\* the authorization of request r passes all six checks of the verifier
WellFormedPayment(r) ==
  LET p == GatePayload(req[r].payment)
      a == p.authorization
      q == PaymentRequirements(RequiredAmount)
  IN /\ req[r].payment.kind = "payload"
     /\ AcceptedMatches(p, q)
     /\ a.value = q.amount
     /\ a.validAfter <= GateNow /\ GateNow < a.validBefore
     /\ a.to = q.payTo
     /\ p.signer = a.from
     /\ GateBalance >= a.value

VerifyReturns(r) == req[r].state = "PAYLOAD_RECEIVED" /\ req'[r].state # "PAYLOAD_RECEIVED"

\* C14: for a payload that is unexpired, correctly signed, addressed to the
\* payee and of exactly the required amount, from a funded payer, verify
\* returns valid; when the backend then reaches COMPLETE with a hash, settle
\* returns success with that transaction and the gate returns the handler's
\* 200 response and body together with that transaction
C14_ValidPaymentFulfilledWith200 ==
  [][ \A r \in Req :
        /\ (VerifyReturns(r) /\ WellFormedPayment(r)) =>
             /\ facilitatorVerify(req[r].payment).isValid
             /\ req'[r].state = "VERIFIED"
        /\ (/\ SettleReturns(r)
            /\ WellFormedPayment(r)
            /\ circleTx[r].state = "COMPLETE"
            /\ ~Falsy(circleTx[r].txHash)) =>
             /\ SettleResponse(r).success
             /\ SettleResponse(r).transaction = circleTx[r].txHash
             /\ req'[r].state = "FULFILLED"
             /\ req'[r].settleTx = circleTx[r].txHash
             /\ req'[r].status = 200
             /\ req'[r].released ]_vars


(***************************************************************************)
(* Properties of the verifier (VerifySpec).                                *)
(***************************************************************************)
\* the last call verified a payload a buyer built, before its validBefore
BuyerVerifiedInTime ==
  /\ ver.called
  /\ ver.source = "buyer"
  /\ ver.payload.authorization.validAfter = 0
  /\ ver.now < ver.payload.authorization.validBefore
  /\ ver.requirements.maxTimeoutSeconds = MaxTimeoutSeconds

\* C15: an authorization built as the buyers build it (validAfter = 0,
\* validBefore = now + 3600), verified against a requirement with
\* maxTimeoutSeconds = 3600, passes the time-window check (validAfter <= now
\* < validBefore and validBefore - validAfter <= maxTimeoutSeconds) and
\* verify reports it valid
C15_BuyerAuthorizationPassesTimeWindow ==
  BuyerVerifiedInTime =>
    /\ TimeWindowOk(ver.payload.authorization, ver.requirements, ver.now)
    /\ ver.status = 200
    /\ ver.isValid


\* the payload of request r is an authorization of another value than the
\* required amount
WrongValue(r) ==
  /\ req[r].payment.kind = "payload"
  /\ req[r].payment.value # RequiredAmount

\* C16: verify rejects every authorization whose value is not
\* requirement.amount, greater or smaller, and where the accepted block
\* matches (the check before it passes) the reason is the amount mismatch;
\* the gate rejects such a request with that reason, asks for no settlement,
\* creates no transaction, runs no handler and releases nothing
C16_WrongValueRejected ==
  /\ \A value \in VerifyValues \ {RequiredAmount}, accepted \in VerifyAccepted,
        balance \in VerifyBalances :
       LET payload == PaymentPayload(accepted,
                        TransferAuthorization(BuyerAddress, MerchantAddress, value,
                                              GateNow, GateNow + 1, "n1"),
                        BuyerAddress)
           v == verifyRoute(TRUE, TRUE, payload, PaymentRequirements(RequiredAmount),
                            GateNow, balance)
       IN /\ v.status = 200
          /\ ~v.isValid
          /\ AcceptedMatches(payload, PaymentRequirements(RequiredAmount))
               => v.invalidReason = AmountMismatchReason
  /\ \A r \in Req :
       (WrongValue(r) /\ req[r].state \notin {"IDLE", "PAYLOAD_RECEIVED"}) =>
         /\ req[r].state = "REJECTED"
         /\ req[r].status = 402
         /\ req[r].reason = AmountMismatchReason
         /\ req[r].events = <<"verify">>
         /\ circleTx[r] = NoCircleTx
         /\ ~req[r].released
         /\ req[r].recorded = 0

\* an underpayment of 9999 was rejected while a request that paid in full
\* was fulfilled
C16_Witness ==
  \E r, k \in Req :
    /\ req[r].payment.kind = "payload"
    /\ req[r].payment.value = RequiredAmount - 1
    /\ req[r].state = "REJECTED"
    /\ req[k].state = "FULFILLED"


\* the payload of the last call with its window moved to [validAfter, validBefore)
WithWindow(validAfter, validBefore) ==
  [ver.payload EXCEPT !.authorization.validAfter = validAfter,
                      !.authorization.validBefore = validBefore]

\* the answer of POST /verify for a payload at the time and balance of the
\* last call
VerifyAgain(payload) ==
  verifyRoute(TRUE, TRUE, payload, ver.requirements, ver.now, ver.balance)

\* C17: with integer timestamps an authorization with validBefore = now
\* fails the time check and is never valid (the upper bound is exclusive),
\* whatever its validAfter; one with validAfter = now and validBefore =
\* now + 1 passes the time check: it is valid unless another check fails
C17_ValidBeforeExclusive ==
  (ver.called /\ ver.status = 200) =>
    LET a == ver.payload.authorization IN
      /\ a.validBefore = ver.now =>
           /\ ~ver.isValid
           /\ ver.invalidReason \in
                {"accepted_mismatch", AmountMismatchReason, "invalid_time_window"}
      /\ \A validAfter \in ValidAfters(ver.now) :
           ~VerifyAgain(WithWindow(validAfter, ver.now)).isValid
      /\ (a.validAfter = ver.now /\ a.validBefore = ver.now + 1) =>
           /\ ver.invalidReason # "invalid_time_window"
           /\ ver.isValid <=>
                /\ AcceptedMatches(ver.payload, ver.requirements)
                /\ a.value = ver.requirements.amount
                /\ a.to = ver.requirements.payTo
                /\ ver.payload.signer = a.from
                /\ ver.balance >= a.value
      /\ VerifyAgain(WithWindow(ver.now, ver.now + 1)).invalidReason
           # "invalid_time_window"

\* a payload that is valid at the Unix time now with the window
\* [now, now + 1) was rejected for its time window with validBefore = now
C17_Witness ==
  /\ ver.called
  /\ ver.now = 1700000000
  /\ ver.payload.authorization.validAfter = ver.now
  /\ ver.payload.authorization.validBefore = ver.now
  /\ ~ver.isValid
  /\ ver.invalidReason = "invalid_time_window"
  /\ VerifyAgain(WithWindow(ver.now, ver.now + 1)).isValid


(***************************************************************************)
(* The binding of a payload to the request it is presented with.           *)
(***************************************************************************)
\* request r carries a payload that answers no offer of its resource
Unbound(r) ==
  /\ req[r].state # "IDLE"
  /\ req[r].payment.kind = "payload"
  /\ ~BoundToRequest(req[r].route, req[r].slug, req[r].payment)

\* C18: a payload whose accepted block is none of the requirements the gate
\* builds for the requested resource, or whose resource is not the one
\* requested, is rejected on arrival: verify and settle are never asked, no
\* transaction is created, no handler runs and nothing is released
C18_UnboundPayloadRejectedBeforeVerify ==
  \A r \in Req :
    Unbound(r) =>
      /\ req[r].state = "REJECTED"
      /\ req[r].status = 402
      /\ req[r].events = << >>
      /\ circleTx[r] = NoCircleTx
      /\ req[r].settleTx = NoTx
      /\ ~req[r].released
      /\ req[r].recorded = 0

\* a payload accepting another payee and a payload built for /api/premium
\* were both presented for an article and rejected
C18_Witness ==
  \E r, k \in Req :
    /\ Unbound(r) /\ Unbound(k)
    /\ req[r].payment.payTo = OtherAddress
    /\ req[k].payment.resource = "/api/premium"
    /\ req[k].route = "article"
    /\ req[r].state = "REJECTED" /\ req[k].state = "REJECTED"


(***************************************************************************)
(* The 402 challenge.                                                      *)
(***************************************************************************)
\* request r is answered with a challenge in this step
Challenges(r) == req[r].state = "IDLE" /\ req'[r].state = "CHALLENGE_ISSUED"

SameOffer(a, b) == a.amount = b.amount /\ a.payTo = b.payTo /\ a.asset = b.asset

MaxPriceCents == 300
ParserNetworks == {ARC_NETWORK, "eip155:1"}

\* the registry resolves the price of a resource
ParseMoney ==
  /\ ~quote.called
  /\ \E cents \in 0 .. MaxPriceCents, network \in ParserNetworks :
       quote' = [called |-> TRUE, cents |-> cents, network |-> network,
                 parsed |-> moneyParser(cents, network)]
  /\ UNCHANGED <<ledgerVars, gateVars, poll, pay, ver, extVars>>

ParseReturn ==
  /\ quote.called
  /\ quote' = NoQuote
  /\ UNCHANGED <<ledgerVars, gateVars, poll, pay, ver, extVars>>

RegistryNext == ParseMoney \/ ParseReturn

RegistrySpec == Init /\ [][RegistryNext]_vars

\* C20: the registry converts a decimal USD price to a non-negative integer
\* amount of the asset's smallest unit at 6 decimals, amount = price * 10^6
\* (a price of c cents gives c * 10^4); the price $0.01 gives 10000
C20_AmountIsPriceAtSixDecimals ==
  (quote.called /\ quote.network = ARC_NETWORK) =>
    /\ quote.parsed.handled
    /\ quote.parsed.amount >= 0
    /\ quote.parsed.amount * 100 = quote.cents * MoneyUnits
    /\ quote.cents = 1 => quote.parsed.amount = RequiredAmount


(***************************************************************************)
(* ConfigSpec: the requirements built for a resource under every           *)
(* configuration of the payee.                                             *)
(***************************************************************************)
\* the values of PAY_TO_ADDRESS
EnvPayees == {Undefined, EmptyStr, MerchantAddress, OtherAddress}

\* the wallets the Circle account may hold
CircleWallets ==
  {Wallet(1, "ARC-TESTNET", "EOA", "0xAgent"),
   Wallet(2, "ARC-TESTNET", "EOA", MerchantAddress),
   Wallet(3, "ARC-TESTNET", "SCA", "0xSca"),
   Wallet(4, "ETH-SEPOLIA", "EOA", "0xSepolia"),
   Wallet(5, "ARC-TESTNET", "EOA", OtherAddress),
   Wallet(6, "ETH-SEPOLIA", "SCA", "0xSepoliaSca"),
   Wallet(7, "MATIC-AMOY", "EOA", "0xAmoy")}

\* a route is configured with createPaymentConfig
ConfigFromEnv ==
  /\ ~conf.called
  /\ \E env \in EnvPayees :
       conf' = [called |-> TRUE, source |-> "env", env |-> env, wallets |-> {},
                config |-> createPaymentConfig(env, RequiredAmount)]
  /\ UNCHANGED <<ledgerVars, gateVars, poll, pay, ver, quote, restVars>>

\* a route is configured with the merchant wallet of the account
ConfigFromWallets ==
  /\ ~conf.called
  /\ \E wallets \in SUBSET CircleWallets :
       conf' = [called |-> TRUE, source |-> "wallets", env |-> Undefined,
                wallets |-> wallets,
                config |-> merchantPaymentConfig(wallets, RequiredAmount)]
  /\ UNCHANGED <<ledgerVars, gateVars, poll, pay, ver, quote, restVars>>

ConfigReturn ==
  /\ conf.called
  /\ conf' = NoConf
  /\ UNCHANGED <<ledgerVars, gateVars, poll, pay, ver, quote, restVars>>

ConfigNext == ConfigFromEnv \/ ConfigFromWallets \/ ConfigReturn

ConfigSpec == Init /\ [][ConfigNext]_vars

\* no payee is configured for the last resolution
NoPayeeConfigured ==
  /\ conf.called
  /\ \/ conf.source = "env" /\ conf.env \in {Undefined, EmptyStr}
     \/ /\ conf.source = "wallets"
        /\ Cardinality({w \in conf.wallets : ArcEOA(w)}) < 2

\* C21: when no payee is configured (PAY_TO_ADDRESS unset, or fewer than two
\* eligible wallets) building the requirements fails with an error and
\* yields no accepts list to challenge with; the payee is never the fixed
\* built-in address
C21_NoPayeeFailsWithoutDefault ==
  NoPayeeConfigured =>
    /\ conf.config.thrown
    /\ conf.config.accepts = << >>
    /\ \A i \in 1 .. Len(conf.config.accepts) :
         conf.config.accepts[i].payTo # BuiltInPayee


(***************************************************************************)
(* The request bodies of the facilitator's routes (VerifySpec).            *)
(***************************************************************************)
\* C22: a POST /verify or POST /settle whose body lacks paymentPayload or
\* paymentRequirements is answered 400 and facilitator.verify or
\* facilitator.settle is not called for it; it is neither valid nor a
\* success
C22_MissingBodyFieldIs400 ==
  (ver.called /\ (~ver.hasPayload \/ ~ver.hasRequirements)) =>
    /\ ver.endpoint \in {"verify", "settle"}
    /\ ver.status = 400
    /\ ~ver.invoked
    /\ ~ver.isValid
    /\ ~ver.success

\* a POST /settle with a payload and no requirements was answered 400
C22_Witness ==
  /\ ver.called
  /\ ver.endpoint = "settle"
  /\ ver.hasPayload /\ ~ver.hasRequirements
  /\ ver.status = 400
  /\ ~ver.invoked


(***************************************************************************)
(* One settlement per request.                                             *)
(***************************************************************************)
CountOf(ev, e) == Cardinality({i \in 1 .. Len(ev) : ev[i] = e})

\* C23: for one request settle is asked at most once and one Circle
\* transaction is submitted at most once; a request whose settle failed
\* stays failed and nothing is submitted for it again; the outcome of the
\* request is the outcome of that one transaction: it is fulfilled only with
\* the hash of its own completed transaction
C23_SettleAtMostOncePerRequest ==
  [][ \A r \in Req :
        /\ CountOf(req'[r].events, "settle") <= 1
        /\ CountOf(req'[r].events, "settle_ok")
             + CountOf(req'[r].events, "settle_failed") <= 1
        /\ req[r].state = "SETTLE_FAILED" => req'[r] = req[r]
        /\ (circleTx[r] # NoCircleTx /\ circleTx'[r] # circleTx[r]) =>
             /\ req[r].state \in {"SETTLING", "SETTLE_FAILED"}
             /\ circleTx[r].state \in PendingStates
             /\ circleTx'[r].state \in TerminalStates
        /\ (req[r].state = "SETTLE_FAILED" /\ circleTx[r] = NoCircleTx) =>
             circleTx'[r] = NoCircleTx
        /\ req'[r].state = "FULFILLED" =>
             /\ circleTx'[r].state = "COMPLETE"
             /\ req'[r].settleTx = circleTx'[r].txHash ]_vars

\* the transaction of a request failed and the request stayed failed after
\* its one settle, while a new request with a fresh authorization of the same
\* payer was fulfilled
C23_Witness ==
  \E r, k \in Req :
    /\ r # k
    /\ req[r].state = "SETTLE_FAILED"
    /\ circleTx[r].state = "FAILED"
    /\ CountOf(req[r].events, "settle") = 1
    /\ req[k].state = "FULFILLED"
    /\ toLowerCase(req[k].payment.from) = toLowerCase(req[r].payment.from)
    /\ req[k].payment.nonce # req[r].payment.nonce


(***************************************************************************)
(* The error surface of the facilitator's routes.                          *)
(***************************************************************************)
\* the call of verify or settle did not succeed
RouteFailed ==
  \/ ver.status # 200
  \/ ver.endpoint = "verify" /\ ~ver.isValid
  \/ ver.endpoint = "settle" /\ ~ver.success

\* the machine-readable reason of the answer
RouteReason == IF ver.endpoint = "verify" THEN ver.invalidReason ELSE ver.errorReason

\* C24: every failure of the facilitator's verify or settle that is answered
\* to a client carries a machine-readable reason (invalidReason or
\* errorReason), and no answer carries the message of an internal exception
\* as its error
C24_FailuresCarryStructuredReason ==
  (ver.called /\ ver.invoked /\ RouteFailed) =>
    /\ RouteReason # "none"
    /\ ver.error = "none"


(***************************************************************************)
(* PostSpec: POST /api/stats requests in flight together.  A request       *)
(* yields once, at await req.json(); the rest of the handler, with          *)
(* updatePaymentTxHash, runs without yielding.                              *)
(***************************************************************************)
PostSpecPayers == {"0xAB", "0xab", EmptyStr}

\* a paid view of an article is recorded
PostRecord ==
  \E slug \in ArticleSlugs, from \in {"0xAB", "0xab"}, hdrTx \in GateHeaderTxs :
    /\ articleHandlerRun(slug, from, hdrTx)
    /\ Len(store'.payments) > Len(store.payments)

\* POST /api/stats: the request arrives and its body is parsed
PostReceive(c) ==
  /\ posts[c].pc = "idle"
  /\ \E slug \in ArticleSlugs, payer \in PostSpecPayers, txHash \in {HashNames[c], EmptyStr} :
       posts' = [posts EXCEPT ![c] = [NoPost EXCEPT !.pc = "parsed", !.slug = slug,
                                                    !.payer = payer, !.txHash = txHash]]
  /\ UNCHANGED <<ledgerVars, gateVars, poll, pay, ver, quote, conf, cache, resolved, circle>>

\* POST /api/stats: the handler from the parsed body to its response;
\* rec: the ghost id of the record it attached to, found: the number of
\* unattached records of its slug and payer it ran over
PostRespond(c) ==
  /\ posts[c].pc = "parsed"
  /\ LET p == posts[c]
         a == statsPOST(store, p.slug, p.payer, p.txHash)
         i == Find(store.payments, p.slug, p.payer)
     IN /\ store' = a.store
        /\ posts' = [posts EXCEPT ![c] =
                       [p EXCEPT !.pc = "done", !.status = a.status,
                                 !.success = a.success, !.updated = a.updated,
                                 !.error = a.error,
                                 !.rec = IF a.updated THEN store.payments[i].id ELSE 0,
                                 !.found = Cardinality(Unattached(store.payments, p.slug, p.payer))]]
  /\ UNCHANGED <<nextId, gateVars, poll, pay, ver, quote, conf, cache, resolved, circle>>

PostNext ==
  \/ PostRecord
  \/ \E c \in PostIds : PostReceive(c)
  \/ \E c \in PostIds : PostRespond(c)

PostSpec == Init /\ [][PostNext]_vars

\* the request has the three body fields
PostComplete(p) == p.slug # EmptyStr /\ p.payer # EmptyStr /\ ~Falsy(p.txHash)

SameRecordKey(p, q) == p.slug = q.slug /\ toLowerCase(p.payer) = toLowerCase(q.payer)

\* C25: when a POST /api/stats runs updatePaymentTxHash while another one for
\* the same slug and payer is in flight and exactly one matching unattached
\* record exists, it returns true and attaches its txHash to that record, the
\* other call then returns false, and no record is attached by two calls
C25_ConcurrentAttachOnce ==
  [][ \A c \in PostIds :
        (posts[c].pc = "parsed" /\ posts'[c].pc = "done" /\ PostComplete(posts[c])) =>
          LET p == posts[c]
              M == Unattached(store.payments, p.slug, p.payer)
          IN /\ posts'[c].updated <=> M # {}
             /\ M = {} => store' = store
             /\ posts'[c].updated =>
                  /\ \E i \in M :
                       /\ store'.payments[i].txHash = p.txHash
                       /\ store'.payments[i].id = posts'[c].rec
                       /\ \A j \in 1 .. Len(store.payments) :
                            j # i => store'.payments[j] = store.payments[j]
                  /\ Len(store'.payments) = Len(store.payments)
                  /\ \A d \in PostIds \ {c} :
                       (posts[d].pc = "done" /\ posts[d].updated) =>
                         posts[d].rec # posts'[c].rec
             /\ Cardinality(M) = 1 =>
                  \A d \in PostIds \ {c} :
                    (posts[d].pc = "parsed" /\ PostComplete(posts[d])
                       /\ SameRecordKey(posts[d], p)) =>
                      LET b == statsPOST(store', posts[d].slug, posts[d].payer, posts[d].txHash)
                      IN ~b.updated /\ b.store = store' ]_vars

\* two requests for one slug and payer were in flight over one unattached
\* record: one attached its hash and the other was answered that nothing matched
C25_Witness ==
  \E c, d \in PostIds :
    /\ c # d
    /\ posts[c].pc = "done" /\ posts[d].pc = "done"
    /\ SameRecordKey(posts[c], posts[d])
    /\ posts[c].payer # posts[d].payer
    /\ posts[c].updated /\ posts[c].found = 1
    /\ ~posts[d].updated /\ posts[d].found = 0 /\ posts[d].status = 404
    /\ \E i \in 1 .. Len(store.payments) :
         /\ store.payments[i].id = posts[c].rec
         /\ store.payments[i].txHash = posts[c].txHash


\* C29: when updatePaymentTxHash finds no unattached record for the slug and
\* payer, POST /api/stats reports it as an "already reconciled or unknown
\* payment" outcome and not as an error response
C29_NoMatchIsNotAnErrorResponse ==
  \A c \in PostIds :
    (posts[c].pc = "done" /\ PostComplete(posts[c]) /\ ~posts[c].updated) =>
      /\ posts[c].status < 400
      /\ posts[c].error = "none"


(***************************************************************************)
(* CacheSpec: the balance cache under payments, resets, the passing of     *)
(* time and GET /api/stats.                                                *)
(***************************************************************************)
\* the values of Date.now() tried: around one and two lifetimes of the cache
CacheTimes ==
  {CacheStart, CacheStart + 1, CacheStart + BALANCE_CACHE_TTL,
   CacheStart + BALANCE_CACHE_TTL + 1, CacheStart + 2 * BALANCE_CACHE_TTL + 1,
   CacheStart + 2 * BALANCE_CACHE_TTL + 2}

\* the amounts getWalletBalance reports
ChainBalances == {"0", "0.01"}

CacheTick ==
  /\ \E t \in CacheTimes : t > cache.now /\ cache' = [cache EXCEPT !.now = t]
  /\ UNCHANGED <<ledgerVars, gateVars, poll, pay, ver, quote, conf, posts, resolved, circle>>

\* a paid view is recorded
CacheRecord ==
  /\ nextId <= MaxLedgerRecords
  /\ store' = recordPayment(store, Payment(nextId, "arc-blockchain-guide",
                                           ArticleAmount, NoTx, "0xab"))
  /\ nextId' = nextId + 1
  /\ cache' = [cache EXCEPT !.paid = TRUE, !.stale = TRUE,
                            !.get.dirty = (cache.get.pc = "fetching")]
  /\ UNCHANGED <<gateVars, poll, pay, ver, quote, conf, posts, resolved, circle>>

CacheReset ==
  /\ store' = resetStats(store)
  /\ cache' = [cache EXCEPT !.paid = FALSE, !.stale = FALSE, !.get.dirty = FALSE]
  /\ UNCHANGED <<nextId, gateVars, poll, pay, ver, quote, conf, posts, resolved, circle>>

\* GET /api/stats up to its first await: answered from the cache, or on its
\* way to the Circle API
StatsGET ==
  /\ cache.get.pc = "idle"
  /\ IF shouldRefreshBalance(store, cache.now)
       THEN cache' = [cache EXCEPT !.get =
                        [NoGet EXCEPT !.pc = "fetching", !.attempted = TRUE,
                                      !.balance = getCachedBalance(store),
                                      !.wallet = getCachedWallet(store),
                                      !.paid = cache.paid]]
       ELSE cache' = [cache EXCEPT !.get =
                        [NoGet EXCEPT !.pc = "done", !.attempted = FALSE,
                                      !.balance = getCachedBalance(store),
                                      !.wallet = getCachedWallet(store),
                                      !.age = cache.now - store.balanceCacheTime,
                                      !.paid = cache.paid]]
  /\ UNCHANGED <<ledgerVars, gateVars, poll, pay, ver, quote, conf, posts, resolved, circle>>

\* the Circle API answered: setCachedBalance and the response
StatsGETRefreshed ==
  /\ cache.get.pc = "fetching"
  /\ \E balance \in ChainBalances :
       /\ store' = setCachedBalance(store, balance, MerchantAddress, cache.now)
       /\ cache' = [cache EXCEPT !.paid = FALSE, !.stale = cache.get.dirty,
                                 !.failed = FALSE,
                                 !.get = [@ EXCEPT !.pc = "done", !.balance = balance,
                                                   !.wallet = MerchantAddress]]
  /\ UNCHANGED <<nextId, gateVars, poll, pay, ver, quote, conf, posts, resolved, circle>>

\* a catch that answers with a zero balance and stores it
StatsGETFailedStoresZero ==
  /\ cache.get.pc = "fetching"
  /\ store' = setCachedBalance(store, "0", cache.get.wallet, cache.now)
  /\ cache' = [cache EXCEPT !.failed = TRUE,
                            !.get = [@ EXCEPT !.pc = "done", !.balance = "0"]]
  /\ UNCHANGED <<nextId, gateVars, poll, pay, ver, quote, conf, posts, resolved, circle>>

\* the Circle API threw: the catch logs, the response carries what was cached
StatsGETFailed ==
  /\ cache.get.pc = "fetching"
  /\ cache' = [cache EXCEPT !.failed = TRUE, !.get = [@ EXCEPT !.pc = "done"]]
  /\ UNCHANGED <<ledgerVars, gateVars, poll, pay, ver, quote, conf, posts, resolved, circle>>

StatsGETReturn ==
  /\ cache.get.pc = "done"
  /\ cache' = [cache EXCEPT !.get = NoGet]
  /\ UNCHANGED <<ledgerVars, gateVars, poll, pay, ver, quote, conf, posts, resolved, circle>>

CacheNext ==
  \/ CacheTick
  \/ CacheRecord
  \/ CacheReset
  \/ StatsGET
  \/ StatsGETRefreshed
  \/ StatsGETFailed
  \/ StatsGETReturn

CacheSpec == Init /\ [][CacheNext]_vars

\* C26: shouldRefreshBalance() is true whenever no balance is cached, a
\* payment was recorded since the cache was last written, or more than 30
\* seconds passed since it was written; a stats read answered without an
\* attempt to refresh serves the cached balance and payee, written at most 30
\* seconds before and after the last payment
C26_RefreshWheneverStale ==
  /\ (\/ Falsy(store.cachedBalance)
      \/ cache.paid
      \/ cache.now - store.balanceCacheTime > BALANCE_CACHE_TTL)
       => shouldRefreshBalance(store, cache.now)
  /\ (cache.get.pc = "done" /\ ~cache.get.attempted) =>
       /\ cache.get.age <= BALANCE_CACHE_TTL
       /\ ~cache.get.paid
       /\ ~Falsy(cache.get.balance)
       /\ cache.get.wallet = MerchantAddress

\* a read at exactly 30 seconds was answered from the cache, and now, a
\* payment recorded and the cache not yet written again, a read must refresh
C26_Witness ==
  /\ cache.get.pc = "done" /\ ~cache.get.attempted
  /\ cache.get.age = BALANCE_CACHE_TTL
  /\ cache.paid
  /\ cache.now - store.balanceCacheTime <= BALANCE_CACHE_TTL
  /\ shouldRefreshBalance(store, cache.now)


(***************************************************************************)
(* ResolveSpec: one requirement of a 402 response, resolved to the amount  *)
(* to sign by each buyer-side call site.                                    *)
(***************************************************************************)
\* accepts[0] of the 402 response arrives
ResolveReceive ==
  /\ ~resolved.received
  /\ \E requirements \in PayRequirements, max_price \in PayMaxPrices :
       resolved' = [NoResolved EXCEPT !.received = TRUE,
                                      !.requirements = requirements,
                                      !.max_price = max_price]
  /\ UNCHANGED <<ledgerVars, gateVars, poll, pay, ver, quote, conf, posts, cache, circle>>

\* a call site resolves the amount of the requirement
ResolveAt(site) ==
  /\ resolved.received
  /\ site \notin resolved.done
  /\ LET a == ResolveAmount(site, resolved.requirements, resolved.max_price) IN
       resolved' = [resolved EXCEPT !.done = @ \cup {site},
                                    !.amount[site] = a.amount,
                                    !.error[site] = a.error]
  /\ UNCHANGED <<ledgerVars, gateVars, poll, pay, ver, quote, conf, posts, cache, circle>>

ResolveReturn ==
  /\ resolved.done = BuyerSites
  /\ resolved' = NoResolved
  /\ UNCHANGED <<ledgerVars, gateVars, poll, pay, ver, quote, conf, posts, cache, circle>>

ResolveNext ==
  \/ ResolveReceive
  \/ \E site \in BuyerSites : ResolveAt(site)
  \/ ResolveReturn

ResolveSpec == Init /\ [][ResolveNext]_vars

\* C27: the buyer-side call sites resolve the amount of a requirement with
\* one precedence (amount, maxAmountRequired, price, $0.01): any two of them
\* that resolve one requirement compute the same value
C27_BuyersResolveSameAmount ==
  \A a, b \in resolved.done :
    (~resolved.error[a] /\ ~resolved.error[b]) =>
      resolved.amount[a] = resolved.amount[b]


(***************************************************************************)
(* Verify has no effects.                                                  *)
(***************************************************************************)
\* the requests whose payload for this authorization the verifier found valid
VerifiedRequests(key) ==
  {r \in PayloadRequests(key) :
     Has(req[r].events, "verify") /\ req[r].state # "REJECTED"}

\* C28: a verify, valid or invalid, leaves the ledger, the balance cache and
\* the backend's consumed nonces, transactions and transfers as they were;
\* an authorization is consumed only by a transfer, however often it was
\* verified, and is settled at most once
C28_VerifyHasNoEffects ==
  /\ [][ \A r \in Req :
           (req[r].state = "PAYLOAD_RECEIVED" /\ req'[r].state # "PAYLOAD_RECEIVED") =>
             /\ Has(req'[r].events, "verify")
             /\ store' = store /\ nextId' = nextId
             /\ circleTx' = circleTx /\ usedNonces' = usedNonces /\ moved' = moved
             /\ \A k \in Req \ {r} : req'[k] = req[k] ]_vars
  /\ [](\A key \in AuthKeys :
          /\ key \in usedNonces <=> moved[key] = 1
          /\ moved[key] = 1 <=>
               \E r \in VerifiedRequests(key) :
                 circleTx[r].state = "COMPLETE" /\ circleTx[r].txHash = HashOf(r)
          /\ Cardinality({r \in VerifiedRequests(key) : req[r].state = "FULFILLED"}) <= 1)

\* one authorization was verified valid in two requests; one of them was
\* settled and fulfilled, the other stands verified and unsettled
C28_Witness ==
  \E r1, r2 \in Req :
    /\ r1 # r2
    /\ AuthKey(req[r1].payment) = AuthKey(req[r2].payment)
    /\ {r1, r2} \subseteq VerifiedRequests(AuthKey(req[r1].payment))
    /\ req[r1].state = "FULFILLED"
    /\ req[r2].state = "VERIFIED"
    /\ moved[AuthKey(req[r1].payment)] = 1


(***************************************************************************)
(* WalletSpec: createAgentWallet called one or several times over one      *)
(* Circle account.                                                         *)
(***************************************************************************)
InFlight(c) == circle.calls[c].pc \in {"listing", "walletSet", "creating"}

\* the account holds wallets made before any call
WalletSeed ==
  /\ circle = NoCircle
  /\ \E ws \in (SUBSET CircleWallets) \ {{}} :
       circle' = [circle EXCEPT !.wallets = ws, !.seeded = TRUE]
  /\ UNCHANGED <<ledgerVars, gateVars, poll, pay, ver, quote, conf, posts, cache, resolved>>

\* createAgentWallet is called and awaits listWallets
WalletCall(c) ==
  /\ circle.calls[c].pc = "idle"
  /\ circle' = [circle EXCEPT !.calls[c] = [NoCall EXCEPT !.pc = "listing"],
                              !.overlap = @ \/ \E d \in Callers \ {c} : InFlight(d)]
  /\ UNCHANGED <<ledgerVars, gateVars, poll, pay, ver, quote, conf, posts, cache, resolved>>

\* listWallets answers: the existing wallet is returned, or createWalletSet
\* is awaited
WalletListed(c) ==
  /\ circle.calls[c].pc = "listing"
  /\ LET e == existingArcWallet(circle.wallets) IN
       circle' = [circle EXCEPT !.calls[c] =
                    IF e.found
                      THEN [@ EXCEPT !.pc = "done", !.result = e.id]
                      ELSE [@ EXCEPT !.pc = "walletSet"]]
  /\ UNCHANGED <<ledgerVars, gateVars, poll, pay, ver, quote, conf, posts, cache, resolved>>

\* createWalletSet answers with a wallet set, and createWallets is awaited;
\* or it fails and the call throws
WalletSetCreated(c) ==
  /\ circle.calls[c].pc = "walletSet"
  /\ \E ok \in BOOLEAN :
       circle' = [circle EXCEPT !.calls[c] =
                    IF ok THEN [@ EXCEPT !.pc = "creating"]
                          ELSE [@ EXCEPT !.pc = "done", !.thrown = TRUE]]
  /\ UNCHANGED <<ledgerVars, gateVars, poll, pay, ver, quote, conf, posts, cache, resolved>>

\* createWallets makes one ARC-TESTNET EOA wallet in the set and it is returned
WalletCreated(c) ==
  /\ circle.calls[c].pc = "creating"
  /\ LET id == NewWalletId(circle.wallets) IN
       circle' = [circle EXCEPT
                    !.wallets = @ \cup {Wallet(id, "ARC-TESTNET", "EOA", "0xAgent")},
                    !.made = @ \cup {id},
                    !.calls[c] = [@ EXCEPT !.pc = "done", !.result = id, !.created = TRUE]]
  /\ UNCHANGED <<ledgerVars, gateVars, poll, pay, ver, quote, conf, posts, cache, resolved>>

WalletReturn(c) ==
  /\ circle.calls[c].pc = "done"
  /\ circle' = [circle EXCEPT !.calls[c] = NoCall]
  /\ UNCHANGED <<ledgerVars, gateVars, poll, pay, ver, quote, conf, posts, cache, resolved>>

WalletNext ==
  \/ WalletSeed
  \/ \E c \in Callers : WalletCall(c)
  \/ \E c \in Callers : WalletListed(c)
  \/ \E c \in Callers : WalletSetCreated(c)
  \/ \E c \in Callers : WalletCreated(c)
  \/ \E c \in Callers : WalletReturn(c)

WalletSpec == Init /\ [][WalletNext]_vars

\* C30: createAgentWallet creates a wallet only when the account holds no
\* ARC-TESTNET EOA wallet; so the calls made on an account that started with
\* no wallet, one after the other or together, create at most one wallet
C30_AtMostOneWalletCreated ==
  ~circle.seeded => Cardinality(circle.made) <= 1


(***************************************************************************)
(* The payer of a ledger record.                                           *)
(***************************************************************************)
\* C31: the payer of every ledger record is the from address, as sent, of the
\* authorization in the payment-signature payload that the gate verified and
\* settled for the request that made the record
C31_PayerIsVerifiedAuthorizationFrom ==
  \A i \in 1 .. Len(store.payments) :
    LET p == store.payments[i] IN
      \E r \in Req :
        /\ req[r].recordId = p.id
        /\ req[r].payment.kind = "payload"
        /\ p.payer = req[r].payment.from
        /\ p.payer # UnknownPayer
        /\ facilitatorVerify(req[r].payment).isValid
        /\ Before(req[r].events, "verify", "handler")
        /\ Before(req[r].events, "settle_ok", "handler")
        /\ moved[AuthKey(req[r].payment)] = 1

\* two records hold the two spellings of one payer, each as its own
\* authorization carried it
C31_Witness ==
  \E i, j \in 1 .. Len(store.payments) :
    /\ store.payments[i].payer = "0xAB"
    /\ store.payments[j].payer = "0xab"
    /\ \E r \in Req : req[r].recordId = store.payments[i].id /\ req[r].payment.from = "0xAB"


(***************************************************************************)
(* The order of a run of arc_pay_for_content.                              *)
(***************************************************************************)
\* C32: in a run of arc_pay_for_content a signature is requested only after
\* the initial request returned 402 with a payment-required header that lists
\* an option; at most one authorization is signed and at most one paid retry
\* is sent, the retry after the signature; when the initial status is not 402
\* nothing is signed and the result says paid: false
C32_SignOnlyAfterChallenge ==
  /\ Len(pay.signed) <= 1
  /\ pay.retries <= Len(pay.signed)
  /\ (pay.pc \in {"sign", "retry"} \/ pay.signed # << >>) =>
       /\ pay.initialStatus = 402
       /\ pay.hasHeader
       /\ pay.options >= 1
  /\ (pay.pc = "done" /\ pay.initialStatus \notin {0, 402}) =>
       /\ pay.signed = << >>
       /\ pay.retries = 0
       /\ pay.paid = "false"
  /\ pay.paid = "true" => (Len(pay.signed) = 1 /\ pay.retries = 1)

\* one run signed once and sent its one paid retry, which failed
C32_Witness ==
  /\ pay.pc = "done"
  /\ pay.initialStatus = 402
  /\ Len(pay.signed) = 1
  /\ pay.retries = 1
  /\ pay.result = "payment failed"


(***************************************************************************)
(* The handler on a slug without an article.                               *)
(***************************************************************************)
HandlerRuns(r) == ~Has(req[r].events, "handler") /\ Has(req'[r].events, "handler")

\* C33: when the article handler runs for a slug that has no article it
\* answers 404 and leaves the ledger as it was: no record is added, and
\* totalPayments, totalRevenue, the per-article stats and the refresh flag
\* keep their values
C33_MissingArticleLeavesLedger ==
  [][ \A r \in Req :
        (HandlerRuns(r) /\ req'[r].route = "article" /\ ~getArticleBySlug(req'[r].slug)) =>
          /\ req'[r].status = 404
          /\ ~req'[r].released
          /\ req'[r].recorded = req[r].recorded
          /\ store'.payments = store.payments
          /\ store'.totalPayments = store.totalPayments
          /\ store'.totalRevenue = store.totalRevenue
          /\ store'.articleStats = store.articleStats
          /\ store'.balanceNeedsRefresh = store.balanceNeedsRefresh
          /\ store' = store
          /\ nextId' = nextId ]_vars

\* the handler answered 404 for a missing article over a ledger that holds a
\* payment
C33_Witness ==
  \E r \in Req :
    /\ Has(req[r].events, "handler")
    /\ req[r].route = "article"
    /\ req[r].slug = MissingSlug
    /\ req[r].status = 404
    /\ req[r].recorded = 0
    /\ store.totalPayments = 1
    /\ Len(store.payments) = 1


\* C34: whenever a payment has been recorded and no balance refresh that
\* started after the recording has completed, shouldRefreshBalance() is
\* true: a refresh in flight when the payment was recorded does not clear
\* the flag the payment set
C34_InFlightRefreshKeepsFlag ==
  cache.stale => shouldRefreshBalance(store, cache.now)


(***************************************************************************)
(* Which record a confirmed settlement is attached to.  In PostSpec the    *)
(* request c posts HashNames[c], the transaction that settled the payment  *)
(* recorded c-th.                                                          *)
(***************************************************************************)
RecordWithId(id) ==
  {i \in 1 .. Len(store.payments) : store.payments[i].id = id}

\* the first two payments are of one slug and payer, were recorded without
\* a transaction, and request c ran while both were unattached
BothUnattachedAt(c) ==
  /\ posts[c].pc = "done"
  /\ PostComplete(posts[c])
  /\ posts[c].found = 2
  /\ \A id \in {1, 2} :
       \E i \in RecordWithId(id) :
         /\ store.payments[i].slug = posts[c].slug
         /\ toLowerCase(store.payments[i].payer) = toLowerCase(posts[c].payer)
         /\ store.payments[i].txAtRecord = NoTx

\* C35: when two payments of one payer for one slug are both unattached and
\* their settlements confirm in the order in which they were recorded, each
\* updatePaymentTxHash call attaches its hash to the record of the payment it
\* settled
C35_InOrderAttachToOwnRecord ==
  BothUnattachedAt(1) =>
    /\ posts[1].updated
    /\ posts[1].rec = 1
    /\ \E i \in RecordWithId(1) : store.payments[i].txHash = HashNames[1]
    /\ (posts[2].pc = "done" /\ posts[2].updated /\ SameRecordKey(posts[1], posts[2])) =>
         /\ posts[2].rec = 2
         /\ \E i \in RecordWithId(2) : store.payments[i].txHash = HashNames[2]


(***************************************************************************)
(* TotalsSpec: the counters of the ledger under recordPayment for the two  *)
(* articles, POST /api/stats and the reset.                                *)
(***************************************************************************)
TotalsRecord(slug) ==
  /\ nextId <= MaxTotalsRecords
  /\ store' = recordPayment(store, Payment(nextId, slug, ArticleAmount, NoTx, "0xab"))
  /\ nextId' = nextId + 1
  /\ UNCHANGED <<gateVars, poll, pay, ver, quote, extVars>>

TotalsNext ==
  \/ \E slug \in ArticleSlugs : TotalsRecord(slug)
  \/ \E slug \in ArticleSlugs : StatsPOST(slug, "0xAB", FakeTx)
  \/ ResetGET

TotalsSpec == Init /\ [][TotalsNext]_vars

\* articleStats.values() reduced with + from 0
RECURSIVE SumViews(_, _)
SumViews(stats, S) ==
  IF S = {} THEN 0
  ELSE LET s == CHOOSE x \in S : TRUE
       IN SumViews(stats, S \ {s}) + stats[s].views

RECURSIVE SumRevenue(_, _)
SumRevenue(stats, S) ==
  IF S = {} THEN NumberZero
  ELSE LET s == CHOOSE x \in S : TRUE
       IN NumberAdd(SumRevenue(stats, S \ {s}), stats[s].revenue)

\* a step that is a call of recordPayment
RecordStep == nextId' = nextId + 1
\* a step that is a reset
ResetStep == nextId' = nextId /\ store' = EmptyStore /\ store # EmptyStore

\* C36: between resets totalPayments is the number of recordPayment calls,
\* the payments list holds min(totalPayments, 50) records newest first, the
\* per-article views sum to totalPayments and totalRevenue is the sum of the
\* per-article revenues; updatePaymentTxHash changes none of these counts
C36_CountersAgree ==
  /\ [][ /\ RecordStep => store'.totalPayments = store.totalPayments + 1
         /\ (~RecordStep /\ ~ResetStep) =>
              /\ store'.totalPayments = store.totalPayments
              /\ store'.totalRevenue = store.totalRevenue
              /\ store'.articleStats = store.articleStats
              /\ Len(store'.payments) = Len(store.payments) ]_vars
  /\ [](/\ Len(store.payments) =
             IF store.totalPayments < PaymentsKept THEN store.totalPayments ELSE PaymentsKept
        /\ \A i \in 1 .. Len(store.payments) : store.payments[i].id = nextId - i
        /\ SumViews(store.articleStats, DOMAIN store.articleStats) = store.totalPayments
        /\ SumRevenue(store.articleStats, DOMAIN store.articleStats) = store.totalRevenue)


\* a step in which a GET /api/stats that went to the Circle API ends in the
\* catch
RefreshFailedStep ==
  /\ cache.get.pc = "fetching"
  /\ cache'.get.pc = "done"
  /\ cache'.failed

\* C37: when the lookup of a stats refresh fails, the GET responds with the
\* wallet and balance that were cached, the cache and its refresh flag stay
\* as they were, and as long as no refresh succeeds shouldRefreshBalance()
\* stays true, so that the next GET attempts the refresh again
C37_FailedRefreshKeepsCacheAndRetries ==
  /\ [][ RefreshFailedStep =>
           /\ store' = store
           /\ cache'.get.balance = cache.get.balance
           /\ cache'.get.wallet = cache.get.wallet
           /\ (~cache.get.dirty /\ store.balanceCacheTime # 0) =>
                /\ cache'.get.balance = getCachedBalance(store')
                /\ cache'.get.wallet = getCachedWallet(store') ]_vars
  /\ [][ (cache.failed /\ cache.get.pc = "idle" /\ cache'.get.pc # "idle") =>
           cache'.get.pc = "fetching" /\ cache'.get.attempted ]_vars
  /\ [](cache.failed => shouldRefreshBalance(store, cache.now))

\* a refresh failed after the 30 seconds of a cached balance had passed: the
\* GET is answered with that balance and the cache still holds it
C37_Witness ==
  /\ cache.failed
  /\ cache.get.pc = "done"
  /\ cache.get.attempted
  /\ cache.get.balance = "0.01"
  /\ cache.get.wallet = MerchantAddress
  /\ store.cachedBalance = "0.01"
  /\ ~store.balanceNeedsRefresh


(***************************************************************************)
(* sendRawTransaction (lib/circle-wallet): like executeContractCall with   *)
(* callData in place of the ABI signature and parameters.                  *)
(***************************************************************************)
\* a sendRawTransaction that returns once the transaction is submitted
sendRawTransactionNoWait(created, obs) ==
  IF ~created
    THEN [thrown |-> TRUE, txHash |-> NoTx, error |-> "Failed to create transaction"]
    ELSE [thrown |-> FALSE, txHash |-> ObservedAt(obs, 1).txHash, error |-> "none"]

\* the transaction was created (created) and is polled with the default
\* budget; returns result.txHash or throws
sendRawTransaction(created, obs) ==
  IF ~created
    THEN [thrown |-> TRUE, txHash |-> NoTx, error |-> "Failed to create transaction"]
    ELSE LET res == waitForCircleTransaction(obs, DefaultMaxAttempts) IN
      IF res.kind = "ok"
        THEN [thrown |-> FALSE, txHash |-> res.txHash, error |-> "none"]
        ELSE [thrown |-> TRUE, txHash |-> NoTx, error |-> WaitError(res)]

\* the polls 1 .. i of the transaction: all before i saw it pending, and poll
\* i saw it COMPLETE with the hash h, not empty
CompletedAtPoll(obs, i, h) ==
  /\ \A j \in 1 .. (i - 1) : SeenPending(obs, j)
  /\ ObservedAt(obs, i).state = "COMPLETE"
  /\ ObservedAt(obs, i).txHash = h
  /\ ~Falsy(h)

\* what the two submitting calls give for the observations of the last poll
SubmitResults ==
  {executeContractCall(c, poll.obs) : c \in BOOLEAN}
    \cup {sendRawTransaction(c, poll.obs) : c \in BOOLEAN}

\* C38: executeContractCall and sendRawTransaction return a transaction hash
\* only when a poll of the transaction they submitted saw it COMPLETE with a
\* hash that is not empty, every poll before having seen it pending, and the
\* hash returned is the one that poll saw; in every other case they throw
\* and return no hash
C38_HashOnlyAfterCompletePoll ==
  poll.called =>
    /\ \A r \in SubmitResults :
         IF r.thrown
           THEN r.txHash = NoTx
           ELSE \E i \in 1 .. DefaultMaxAttempts : CompletedAtPoll(poll.obs, i, r.txHash)
    /\ \A c \in BOOLEAN :
         /\ ~c => executeContractCall(c, poll.obs).thrown /\ sendRawTransaction(c, poll.obs).thrown
         /\ executeContractCall(c, poll.obs).thrown = sendRawTransaction(c, poll.obs).thrown
         /\ executeContractCall(c, poll.obs).txHash = sendRawTransaction(c, poll.obs).txHash

\* sendRawTransaction returned the hash seen by the last poll of the default
\* budget, after 59 polls that saw the transaction pending
C38_Witness ==
  /\ poll.called
  /\ ~sendRawTransaction(TRUE, poll.obs).thrown
  /\ sendRawTransaction(TRUE, poll.obs).txHash = "0xtx1"
  /\ CompletedAtPoll(poll.obs, DefaultMaxAttempts, "0xtx1")
  /\ Len(poll.obs) > DefaultMaxAttempts

====
